---- MODULE Spec2Model ----
(***************************************************************************)
(* Model of the TortoiseHg GUI pieces that carry logic of their own:       *)
(*   - ShortcutRegistry (shortcutregistry.py): user key bindings           *)
(*   - RepoWidget (repowidget.py): selection attributes, named actions     *)
(*   - ManifestModel (manifestmodel.py): lazily populated file tree        *)
(*   - ShortcutSettingsDialog (shortcutsettings.py): edits a registry copy *)
(*   - GraftDialog (graft.py): buttons and command sessions                *)
(*   - PostReviewDialog (postreview.py): the post command and its retry    *)
(*   - UpdateWidget (update.py): the command line of an update             *)
(* Each part has its own specification; the variables of the other parts   *)
(* stay unchanged under it.                                                *)
(***************************************************************************)
EXTENDS Integers, Sequences, FiniteSets, TLC

VARIABLES
    \* ShortcutRegistry
    userKeys,        \* self._userKeys: name -> list of key sequences
    sc_call,         \* the last registry call: [op, name, seqs]
    \* RepoWidget
    selectedRevisions, \* repoview.selectedRevisions()
    current_rev,     \* repoview.current_rev (self.rev)
    overlayUrl,      \* bool(self._repoagent.overlayUrl())
    revset,          \* self.repomodel.revset()
    outgoingMode,    \* self.outgoingMode
    extensions,      \* repo.extensions()
    phase,           \* phase of each changeset of the repository
    napplied,        \* number of applied mq patches (q.seriesend())
    guarded,         \* mq patches that q.pushable() rejects
    actEnabled,      \* QAction.isEnabled() of each named action
    actVisible,      \* QAction.isVisible() of each named action
    rw_call,         \* what the last RepoWidget handler did to the named actions
    \* ManifestModel
    _rootentry,      \* self._rootentry: [ctx, pctx, tree]
    _populate,       \* self._populate
    _rootpopulated,  \* self._rootpopulated
    _namefilter,     \* self._namefilter
    _statusfilter,   \* self._statusfilter
    _changedfilesonly, \* self._changedfilesonly
    _nodeop,         \* self._nodeop
    signals,         \* the signals the last call emitted, in order
    mm_call,         \* the way the last call went out of its handler
    nraised,         \* how many populations raised out of _populate
    \* ShortcutSettingsDialog
    dialog,          \* "none", "open", "accepted" or "rejected"
    w_userKeys,      \* self._widget.registry()._userKeys, the edited copy
    currentName,     \* self._widget._currentName(), "" without a current item
    qsettings,       \* the shortcut group of QSettings: name -> list of text
    actionShortcuts, \* shortcuts of the registered QAction of each name
    sd_calls,        \* the registry calls the last dialog handler made, in order
    \* GraftDialog
    _cmdsession,     \* self._cmdsession: [finished, slot of commandFinished]
    graftbtn,        \* self.graftbtn: [enabled, text, slot of clicked]
    abortbtn,        \* self.abortbtn.isEnabled()
    cancelbtn,       \* self.cancelbtn.isVisible()
    graftstate,      \* the repository has a graft in progress
    unresolved,      \* the merge state lists an unresolved file
    isChecking,      \* the cleaner's check is scheduled or running
    _stbar,          \* the message the status bar shows
    _cmdlog,         \* self._cmdlog.isVisible()
    _optchks,        \* self._optchks: isChecked() of each option
    graft_qs,        \* the group 'graft' of QSettings
    gd_result,       \* "open", "accepted" or "rejected"
    gd_call,         \* the last handler, "AssertionError" if it raised it
    \* PostReviewDialog
    password,        \* self.password, "" for None
    repo_id_combo,   \* the repository combo box has a current text
    review_id_combo, \* the review combo box has a current text
    tab_widget,      \* self.qui.tab_widget.currentIndex()
    selectedRevs,    \* self.selectedRevs
    post_review_button, \* self.qui.post_review_button.isEnabled()
    close_button,    \* self.qui.close_button.isEnabled()
    progress,        \* the progress bar and label are shown
    review_thread,   \* "running", "finished" or "terminated"
    pr_cmdsession,   \* self._cmdsession: [finished, aborted, cmdline]
    _cmdoutputs,     \* what self._cmdoutputs holds: the kind of output
    pr_result,       \* "open", "accepted" or "closed"
    pr_calls,        \* what the last handler called, in order
    \* UpdateWidget
    verbose_chk,     \* self.verbose_chk.isChecked()
    discard_chk,     \* self.discard_chk.isChecked()
    merge_chk,       \* self.merge_chk.isChecked()
    autoresolve_chk, \* self.autoresolve_chk.isChecked()
    path_combo,      \* self.path_combo.currentText()
    rev_combo,       \* self.rev_combo.currentText()
    activatebookmarks, \* the setting tortoisehg.activatebookmarks
    bookmarks,       \* the bookmarks of the target changeset
    activebookmark,  \* hglib.activebookmark(repo), "" for None
    uw_run,          \* what the last call, if runCommand(), read, asked and returned
    \* ResolveDialog
    utree,           \* the rows of the model of self.utree: (path, root)
    rtree,           \* the rows of the model of self.rtree
    utree_sel,       \* selectedRows() of self.utree, in its order
    rtree_sel,       \* selectedRows() of self.rtree
    rd_cmdsession,   \* self._cmdsession: "null", "running" or "finished"
    rd_run           \* the last handler and, of runCommand, what it built

scvars == <<userKeys, sc_call>>
rwvars == <<selectedRevisions, current_rev, overlayUrl, revset, outgoingMode,
            extensions,
            phase, napplied, guarded, actEnabled, actVisible, rw_call>>
mmvars == <<_rootentry, _populate, _rootpopulated, _namefilter, _statusfilter,
            _changedfilesonly, _nodeop, signals, mm_call, nraised>>
sdvars == <<dialog, w_userKeys, currentName, qsettings, actionShortcuts,
            sd_calls>>
gdvars == <<_cmdsession, graftbtn, abortbtn, cancelbtn, graftstate, unresolved,
            isChecking, _stbar, _cmdlog, _optchks, graft_qs, gd_result,
            gd_call>>
\* what the handlers of each dialog never touch
prvars == <<password, repo_id_combo, review_id_combo, tab_widget, selectedRevs,
            post_review_button, close_button, progress, review_thread,
            pr_cmdsession, _cmdoutputs, pr_result, pr_calls>>
uwvars == <<verbose_chk, discard_chk, merge_chk, autoresolve_chk, path_combo,
            rev_combo, activatebookmarks, bookmarks, activebookmark, uw_run>>
rdvars == <<utree, rtree, utree_sel, rtree_sel, rd_cmdsession, rd_run>>
beside_sd == <<rwvars, mmvars, gdvars, prvars, uwvars, rdvars>>
beside_gd == <<rwvars, mmvars, sdvars, prvars, uwvars, rdvars>>
beside_pr == <<rwvars, mmvars, sdvars, gdvars, uwvars, rdvars>>
beside_uw == <<rwvars, mmvars, sdvars, gdvars, prvars, rdvars>>
beside_rd == <<rwvars, mmvars, sdvars, gdvars, prvars, uwvars>>
\* the dialogs and widgets that stand beside the three parts above
extvars == <<sdvars, gdvars, prvars, uwvars, rdvars>>
vars == <<scvars, rwvars, mmvars, extvars>>

Max(S) == CHOOSE x \in S : \A y \in S : y <= x

(***************************************************************************)
(* ShortcutRegistry                                                        *)
(***************************************************************************)

\* The rows of _ACTIONS_TABLE the model keeps: one per shape of default
\* (None, a string, a list of a standard key and a string).
_ACTIONS_TABLE ==
    [n \in {"PatchQueue.deletePatches", "PatchQueue.finishRevision",
            "Workbench.refresh"} |->
        CASE n = "PatchQueue.deletePatches" -> [t |-> "str", s |-> <<"Del">>]
          [] n = "PatchQueue.finishRevision" -> [t |-> "none", s |-> <<>>]
          [] n = "Workbench.refresh" ->
                 [t |-> "list", s |-> <<"std:Refresh", "Ctrl+F5">>]]

allNames == DOMAIN _ACTIONS_TABLE

\* QKeySequence.keyBindings(QKeySequence.Refresh): the platform's binding
keyBindings(d) == IF d = "std:Refresh" THEN <<"F5">> ELSE <<d>>

RECURSIVE ParseList(_)
ParseList(ds) ==
    IF ds = <<>> THEN <<>> ELSE keyBindings(Head(ds)) \o ParseList(Tail(ds))

_parseDefaultKeySequences(data) ==
    CASE data.t = "none" -> <<>>
      [] data.t = "list" -> ParseList(data.s)
      [] data.t = "str"  -> data.s

_defaultKeys == [n \in allNames |-> _parseDefaultKeySequences(_ACTIONS_TABLE[n])]

defaultKeySequences(name) == _defaultKeys[name]

hasUserKeySequences(name) == name \in DOMAIN userKeys

\* keySequences written as `self._userKeys.get(name) or default`
keySequences_falsy(name) ==
    IF name \in DOMAIN userKeys /\ userKeys[name] # <<>> THEN userKeys[name]
    ELSE defaultKeySequences(name)

keySequences(name) ==
    IF name \in DOMAIN userKeys THEN userKeys[name]
    ELSE defaultKeySequences(name)

\* The lists a caller stores: none, one or two key sequences.
KeyPool == {"Ctrl+K", "Del", "F5"}
MaxSeqs == 2
UserSeqs == UNION {[1..k -> KeyPool] : k \in 0..MaxSeqs}

StoreUserKeys(keys, name, seqs) ==
    [n \in DOMAIN keys \cup {name} |-> IF n = name THEN seqs ELSE keys[n]]

DropUserKeys(keys, name) ==
    [n \in DOMAIN keys \ {name} |-> keys[n]]

setUserKeySequences(name, seqs) ==
    /\ userKeys' = StoreUserKeys(userKeys, name, seqs)
    /\ sc_call' = [op |-> "set", name |-> name, seqs |-> seqs]
    /\ UNCHANGED <<rwvars, mmvars, extvars>>

unsetUserKeySequences(name) ==
    /\ userKeys' = DropUserKeys(userKeys, name)
    /\ sc_call' = [op |-> "unset", name |-> name, seqs |-> <<>>]
    /\ UNCHANGED <<rwvars, mmvars, extvars>>

InitShortcuts ==
    /\ userKeys = [n \in {} |-> <<>>]
    /\ sc_call = [op |-> "init", name |-> "", seqs |-> <<>>]

(***************************************************************************)
(* RepoWidget: selection attributes and named actions                      *)
(***************************************************************************)

MaxRev == 1            \* the changelog holds revisions 0..MaxRev
NPatches == 2          \* q.series holds patches 0..NPatches-1

wdirrev == 2147483647  \* nodemod.wdirrev
public == 0            \* phases.public
draft == 1             \* phases.draft
secret == 2            \* phases.secret

Revs == 0..MaxRev
series == [i \in 0..(NPatches - 1) |-> i]   \* q.series, patches by position

\* What repoview.selectedRevisions() yields: None for the working directory,
\* an int for a changeset, bytes (a patch name) for an unapplied patch.
WdItem == [kind |-> "None", id |-> 0]
RevItem(r) == [kind |-> "int", id |-> r]
PatchItem(i) == [kind |-> "bytes", id |-> i]

\* Applied patches are the topmost changesets; the rest of the series is
\* unapplied and shown as patch rows.
AppliedRevs(n) == {r \in Revs : r > MaxRev - n}
UnappliedPatches(n) == {i \in DOMAIN series : i >= n}
Items(n) == {WdItem} \cup {RevItem(r) : r \in Revs}
            \cup {PatchItem(i) : i \in UnappliedPatches(n)}

_SELECTION_SINGLE == "single"
_SELECTION_PAIR == "pair"
_SELECTION_SOME == "some"
_SELECTION_INCOMING == "incoming"
_SELECTION_OUTGOING == "outgoing"
_SELECTION_ISREV == "isrev"
_SELECTION_ISWD == "iswd"
_SELECTION_ISCTX == "isctx"
_SELECTION_ISPATCH == "ispatch"
_SELECTION_FIXED == "fixed"
_SELECTION_APPLIED == "applied"
_SELECTION_UNAPPLIED == "unapplied"
_SELECTION_QFOLD == "qfold"
_SELECTION_QGOTO == "qgoto"
_SELECTION_QPUSH == "qpush"
_SELECTION_QPUSHMOVE == "qpushmove"
_SELECTION_ISTRUE == "istrue"
_SELECTION_ISDRAFTORWD == "isdraftorwd"

_KNOWN_SELECTION_ATTRS ==
    {_SELECTION_SINGLE, _SELECTION_PAIR, _SELECTION_SOME,
     _SELECTION_INCOMING, _SELECTION_OUTGOING,
     _SELECTION_ISREV, _SELECTION_ISWD, _SELECTION_ISCTX, _SELECTION_ISPATCH,
     _SELECTION_FIXED, _SELECTION_APPLIED, _SELECTION_UNAPPLIED,
     _SELECTION_QFOLD, _SELECTION_QGOTO, _SELECTION_QPUSH,
     _SELECTION_QPUSHMOVE, _SELECTION_ISTRUE, _SELECTION_ISDRAFTORWD}

_selectedIntRevisionsAndUnappliedPatches(sel) ==
    [revisions |-> {IF r.kind = "None" THEN wdirrev ELSE r.id :
                        r \in {x \in sel : x.kind \in {"None", "int"}}},
     patches |-> {series[r.id] : r \in {x \in sel : x.kind = "bytes"}}]

\* self.repo[rev]: what _selectionAttributes reads from a context
ctxrev(rev) == IF rev = wdirrev THEN "None" ELSE "int"
ctxphase(rev) == IF rev = wdirrev THEN Max({draft, phase[MaxRev]}) ELSE phase[rev]
thgmqappliedpatch(rev) == rev # wdirrev /\ rev \in AppliedRevs(napplied)
hasqparent(rev) == napplied > 0 /\ rev = MaxRev - napplied
hasqtip == napplied > 0

\* The scan of q.series from q.seriesend() in _selectionAttributes
pushablePatches == {i \in UnappliedPatches(napplied) : i \notin guarded}
ispushable ==
    \E i \in pushablePatches : current_rev = PatchItem(i)
qnext ==
    IF pushablePatches = {} THEN -1
    ELSE series[CHOOSE i \in pushablePatches : \A j \in pushablePatches : i <= j]

\* CtxAttributes without the len(revisions) == 1 test of 'iswd'
CtxAttributes_anywd(revisions) ==
    LET haswdir == Max(revisions) = wdirrev
    IN  {_SELECTION_ISCTX}
        \cup (IF ~haswdir THEN {_SELECTION_ISREV} ELSE {})
        \cup (IF haswdir THEN {_SELECTION_ISWD} ELSE {})

CtxAttributes(revisions) ==
    LET haswdir == Max(revisions) = wdirrev
    IN  {_SELECTION_ISCTX}
        \cup (IF ~haswdir THEN {_SELECTION_ISREV} ELSE {})
        \cup (IF Cardinality(revisions) = 1 /\ haswdir
              THEN {_SELECTION_ISWD} ELSE {})
        \cup (IF \A c \in revisions : ctxphase(c) >= draft \/ ctxrev(c) = "None"
              THEN {_SELECTION_ISDRAFTORWD} ELSE {})
        \cup (IF ~haswdir /\ ~\E c \in revisions : thgmqappliedpatch(c)
              THEN {_SELECTION_FIXED} ELSE {})
        \cup (IF \A c \in revisions : thgmqappliedpatch(c)
              THEN {_SELECTION_ISPATCH, _SELECTION_APPLIED} ELSE {})
        \cup (IF \A c \in revisions : thgmqappliedpatch(c) \/ hasqparent(c)
              THEN {_SELECTION_QGOTO} ELSE {})

PatchAttributes(patches) ==
    {_SELECTION_ISPATCH, _SELECTION_UNAPPLIED}
    \cup (IF hasqtip THEN {_SELECTION_QFOLD} ELSE {})
    \cup (IF ispushable THEN {_SELECTION_QPUSH} ELSE {})
    \cup (IF ispushable /\ Cardinality(patches) = 1
             /\ (CHOOSE p \in patches : TRUE) # qnext
          THEN {_SELECTION_QPUSHMOVE} ELSE {})

\* SelectionAttributesWith counting the revisions only
SelectionAttributesWith_revsonly(isBundleSet, outgoing) ==
    LET rp == _selectedIntRevisionsAndUnappliedPatches(selectedRevisions)
        n == Cardinality(rp.revisions)
    IN  {_SELECTION_ISTRUE}
        \cup (IF n = 1 THEN {_SELECTION_SINGLE} ELSE {})
        \cup (IF n = 2 THEN {_SELECTION_PAIR} ELSE {})
        \cup (IF rp.revisions # {} THEN {_SELECTION_SOME} ELSE {})

SelectionAttributesWith(isBundleSet, outgoing) ==
    LET rp == _selectedIntRevisionsAndUnappliedPatches(selectedRevisions)
        revisions == rp.revisions
        patches == rp.patches
        n == Cardinality(revisions) + Cardinality(patches)
    IN  {_SELECTION_ISTRUE}
        \cup (IF n = 1 THEN {_SELECTION_SINGLE} ELSE {})
        \cup (IF n = 2 THEN {_SELECTION_PAIR} ELSE {})
        \cup (IF revisions # {} \/ patches # {} THEN {_SELECTION_SOME} ELSE {})
        \cup (IF isBundleSet THEN {_SELECTION_INCOMING} ELSE {})
        \cup (IF outgoing THEN {_SELECTION_OUTGOING} ELSE {})
        \cup (IF patches = {} /\ revisions # {}
              THEN CtxAttributes(revisions) ELSE {})
        \cup (IF revisions = {} /\ patches # {}
              THEN PatchAttributes(patches) ELSE {})

isBundleSet == overlayUrl /\ revset = "bundle()"

_selectionAttributes == SelectionAttributesWith(isBundleSet, outgoingMode)

\* self._actions as _setUpNamedActions fills it: name -> (attrs, exts).
\* One row per combination of attributes and extensions that occurs.
_actions ==
    [n \in {"Repository.pullToRevision", "Repository.pushToRevision",
            "Repository.visualDiff", "Repository.exportDiff",
            "Repository.mergeWithRevision", "Repository.topicRevision",
            "PatchQueue.popPatch", "PatchQueue.pushMovePatch",
            "PatchQueue.launchOptionsDialog", "Repository.stripRevision"} |->
        CASE n = "Repository.pullToRevision" ->
                 [attrs |-> {_SELECTION_SINGLE, _SELECTION_INCOMING,
                             _SELECTION_ISREV}, exts |-> {}]
          [] n = "Repository.pushToRevision" ->
                 [attrs |-> {_SELECTION_SINGLE, _SELECTION_OUTGOING,
                             _SELECTION_ISREV}, exts |-> {}]
          [] n = "Repository.visualDiff" ->
                 [attrs |-> {_SELECTION_SINGLE, _SELECTION_ISCTX}, exts |-> {}]
          [] n = "Repository.exportDiff" ->
                 [attrs |-> {_SELECTION_PAIR, _SELECTION_ISCTX}, exts |-> {}]
          [] n = "Repository.mergeWithRevision" ->
                 [attrs |-> {_SELECTION_SINGLE, _SELECTION_FIXED}, exts |-> {}]
          [] n = "Repository.topicRevision" ->
                 [attrs |-> {_SELECTION_SINGLE, _SELECTION_ISDRAFTORWD},
                  exts |-> {"topic"}]
          [] n = "PatchQueue.popPatch" ->
                 [attrs |-> {_SELECTION_SINGLE, _SELECTION_APPLIED},
                  exts |-> {"mq"}]
          [] n = "PatchQueue.pushMovePatch" ->
                 [attrs |-> {_SELECTION_SINGLE, _SELECTION_QPUSHMOVE},
                  exts |-> {"mq"}]
          [] n = "PatchQueue.launchOptionsDialog" ->
                 [attrs |-> {}, exts |-> {"mq"}]
          [] n = "Repository.stripRevision" ->
                 [attrs |-> {_SELECTION_SINGLE, _SELECTION_FIXED},
                  exts |-> {"mq", "strip"}]]

\* The loop of _updateNamedActions over the selection attributes selattrs
\* and the enabled extensions enabledexts
EnabledActions_any(selattrs) ==
    LET have == selattrs
    IN  {n \in DOMAIN _actions : _actions[n].attrs \cap have # {}}
EnabledActions(selattrs) ==
    LET have == selattrs
    IN  {n \in DOMAIN _actions : _actions[n].attrs \subseteq have}
VisibleActions(enabledexts) ==
    {n \in DOMAIN _actions :
        _actions[n].exts = {} \/ _actions[n].exts \cap enabledexts # {}}

\* _updateNamedActions run at the end of a handler, on the state it leaves
_updateNamedActions ==
    /\ actEnabled' = EnabledActions(_selectionAttributes')
    /\ actVisible' = VisibleActions(extensions')
    /\ rw_call' = "_updateNamedActions"

\* Phases never decrease from a changeset to its descendants.
PhaseMaps == {f \in [Revs -> {public, draft, secret}] :
                 \A r \in Revs : r > 0 => f[r - 1] <= f[r]}
ExtPool == {"mq"}
\* A guard, if any, is on the first unapplied patch.
Guards(n) == {{}} \cup {{i} : i \in {j \in UnappliedPatches(n) : j = n}}
repovars == <<phase, napplied, guarded>>

viewvars == <<selectedRevisions, current_rev>>

\* The user clicks a row of the graph: the row becomes the current one and
\* joins or leaves the selection (toggle), or becomes the whole selection;
\* selectionChanged then runs the slot.
_onSelectedRevisionsChanged(item, toggle) ==
    /\ selectedRevisions' =
           IF ~toggle THEN {item}
           ELSE IF item \in selectedRevisions THEN selectedRevisions \ {item}
           ELSE selectedRevisions \cup {item}
    /\ selectedRevisions' # selectedRevisions
    /\ current_rev' = item
    /\ UNCHANGED <<overlayUrl, revset, outgoingMode, extensions, repovars>>
    /\ _updateNamedActions
    /\ UNCHANGED <<scvars, mmvars, extvars>>

\* The changelog, the phases or the patch queue changed; rows that no
\* longer exist leave the selection when the graph is rebuilt.
repositoryChanged(ph, n, g) ==
    /\ <<ph, n, g>> # <<phase, napplied, guarded>>
    /\ phase' = ph /\ napplied' = n /\ guarded' = g
    /\ selectedRevisions' = selectedRevisions \cap Items(n)
    /\ current_rev' = IF current_rev \in Items(n) THEN current_rev ELSE WdItem
    /\ UNCHANGED <<overlayUrl, revset, outgoingMode, extensions>>
    /\ _updateNamedActions
    /\ UNCHANGED <<scvars, mmvars, extvars>>

\* repo.extensions() changes with the configuration; configChanged does not
\* touch the named actions.
configChanged(exts) ==
    /\ exts # extensions
    /\ extensions' = exts
    /\ UNCHANGED <<viewvars, overlayUrl, revset, outgoingMode, repovars,
                   actEnabled, actVisible>>
    /\ rw_call' = "untouched"
    /\ UNCHANGED <<scvars, mmvars, extvars>>

RevSpecs == {"", "bundle()", "1::"}

setRevisionSet(revspec) ==
    /\ revset' = revspec
    /\ UNCHANGED <<viewvars, overlayUrl, extensions, repovars>>
    /\ IF revspec = "" /\ outgoingMode
       THEN /\ outgoingMode' = FALSE
            /\ _updateNamedActions
       ELSE /\ UNCHANGED <<outgoingMode, actEnabled, actVisible>>
            /\ rw_call' = "untouched"
    /\ UNCHANGED <<scvars, mmvars, extvars>>

\* clearBundle: clearRevisionSet(), then the overlay is removed.
clearBundle ==
    /\ revset' = ""
    /\ overlayUrl' = FALSE
    /\ UNCHANGED <<viewvars, extensions, repovars>>
    /\ IF outgoingMode
       THEN /\ outgoingMode' = FALSE
            /\ _updateNamedActions
       ELSE /\ UNCHANGED <<outgoingMode, actEnabled, actVisible>>
            /\ rw_call' = "untouched"
    /\ UNCHANGED <<scvars, mmvars, extvars>>

\* setBundle: clearBundle() if an overlay is set (its _updateNamedActions
\* sees no revision set), then the overlay is set and 'bundle()' is shown.
setBundle ==
    /\ overlayUrl' = TRUE
    /\ revset' = "bundle()"
    /\ IF overlayUrl /\ outgoingMode
       THEN /\ outgoingMode' = FALSE
            /\ actEnabled' = EnabledActions(SelectionAttributesWith(FALSE, FALSE))
            /\ actVisible' = VisibleActions(extensions)
            /\ rw_call' = "stale"
       ELSE /\ UNCHANGED <<outgoingMode, actEnabled, actVisible>>
            /\ rw_call' = "untouched"
    /\ UNCHANGED <<viewvars, extensions, repovars>>
    /\ UNCHANGED <<scvars, mmvars, extvars>>

\* setOutgoingNodes(nodes): the revision set of the nodes (empty when there
\* are none) is shown and the widget enters the outgoing mode.
setOutgoingNodes(revspec) ==
    /\ revset' = revspec
    /\ outgoingMode' = TRUE
    /\ UNCHANGED <<viewvars, overlayUrl, extensions, repovars>>
    /\ _updateNamedActions
    /\ UNCHANGED <<scvars, mmvars, extvars>>

push ==
    /\ outgoingMode' = FALSE
    /\ UNCHANGED <<viewvars, overlayUrl, revset, extensions, repovars>>
    /\ _updateNamedActions
    /\ UNCHANGED <<scvars, mmvars, extvars>>

\* RepoWidget.__init__: nothing is selected, createActions() has filled
\* self._actions and _updateNamedActions() has run on them.
InitWidget ==
    /\ selectedRevisions = {}
    /\ current_rev = WdItem
    /\ overlayUrl = FALSE
    /\ revset = ""
    /\ outgoingMode = FALSE
    /\ actEnabled = EnabledActions(_selectionAttributes)
    /\ actVisible = VisibleActions(extensions)
    /\ rw_call = "_updateNamedActions"

(***************************************************************************)
(* ManifestModel: the repository it shows                                  *)
(***************************************************************************)

MTip == 1              \* the changelog of the shown repository: 0..MTip

nullrev == -1          \* repo[-1], the parent of revision 0
FirstParent == -2      \* ManifestModel.FirstParent
SecondParent == -3     \* ManifestModel.SecondParent
None == -4             \* a rev argument of None, the working directory

\* Contexts: ctx.rev() is an int for a changectx, None for the workingctx
\* and a str for a patchctx.
changectx(r) == [t |-> "changectx", r |-> r]
workingctx == [t |-> "workingctx", r |-> 0]
patchctx == [t |-> "patchctx", r |-> 0]
NoCtx == [t |-> "None", r |-> 0]

\* repo[rev], rev = None for the working directory
repoctx(rev) == IF rev = None THEN workingctx ELSE changectx(rev)

\* The history is linear and the working directory is at the tip.
p1(ctx) == IF ctx.t = "workingctx" THEN changectx(MTip)
           ELSE IF ctx.r = nullrev THEN ctx ELSE changectx(ctx.r - 1)
p2(ctx) == changectx(nullrev)

\* Paths are sequences of one-letter names.
Alphabet == <<"a", "b", "c", "d", "e", "g", "n", "p", "s", "u", "x", "y">>
MainFiles == {<<"a">>, <<"b">>, <<"d", "c">>, <<"d", "e">>, <<"n">>, <<"u">>}
SubFiles == {<<"x">>, <<"y">>}
SubPaths == {<<"s">>, <<"g">>}

\* The content of a file of the main repository in a context, 0 if the
\* context does not track it: 'a' changes in every revision, 'b' never,
\* 'd/e' exists in revision 0 only, 'd/c' since revision 1; the working
\* directory modifies 'a', removes 'd/c', adds 'n' and has the unknown 'u'.
content(f, ctx) ==
    IF ctx.t = "workingctx"
    THEN CASE f = <<"a">> -> 9
           [] f = <<"b">> -> 1
           [] f = <<"n">> -> 1
           [] OTHER -> 0
    ELSE IF ctx.r = nullrev THEN 0
    ELSE CASE f = <<"a">> -> 1 + (ctx.r % 2)
           [] f = <<"b">> -> 1
           [] f = <<"d", "c">> -> IF ctx.r >= 1 THEN 1 ELSE 0
           [] f = <<"d", "e">> -> IF ctx.r = 0 THEN 1 ELSE 0
           [] OTHER -> 0

\* The content of a file of the subrepository 's' at its revisions 0, 1
subcontent(f, srev) ==
    CASE srev = nullrev -> 0
      [] f = <<"x">> -> 1 + srev
      [] f = <<"y">> -> IF srev >= 1 THEN 1 ELSE 0

\* One entry of repo.status(pctx, ctx): the status letter of a file whose
\* content is cp in pctx and cc in ctx, "-" if neither has it
statusletter(cp, cc) ==
    CASE cp = 0 /\ cc = 0 -> "-"
      [] cp = 0 -> "A"
      [] cc = 0 -> "R"
      [] cp = cc -> "C"
      [] OTHER -> "M"

repostatus(pctx, ctx, f) ==
    IF ctx.t = "workingctx" /\ f = <<"u">> THEN "?"
    ELSE statusletter(content(f, pctx), content(f, ctx))

\* ctx.changesToParent(0): the patch modifies 'a', adds 'd/p' and removes
\* 'b'; a context of the repository compares itself with its first parent.
PatchFiles == {<<"a">>, <<"d", "p">>, <<"b">>}
changesToParent(ctx, f) ==
    IF ctx.t = "patchctx"
    THEN CASE f = <<"a">> -> "M"
           [] f = <<"d", "p">> -> "A"
           [] f = <<"b">> -> "R"
           [] OTHER -> "-"
    ELSE repostatus(p1(ctx), ctx, f)

\* ctx.files(): the files the changeset (or the working directory) changes
ctxfiles(ctx) ==
    IF ctx.t = "patchctx" THEN PatchFiles
    ELSE {f \in MainFiles : repostatus(p1(ctx), ctx, f) \in {"M", "A", "R"}}

\* ctx.substate: 's' is a Mercurial subrepository added in revision 1 at
\* its revision 0 and moved to its revision 1 afterwards (revision 2 and
\* the working directory); 'g' is a git subrepository that never changes.
nullsubrepostate == [rev |-> nullrev, kind |-> "None"]
substate(ctx, path) ==
    IF ctx.t = "changectx" /\ ctx.r = nullrev THEN nullsubrepostate
    ELSE IF path = <<"g">> THEN [rev |-> 0, kind |-> "git"]
    ELSE IF ctx.t = "workingctx" \/ ctx.r >= 2 THEN [rev |-> 1, kind |-> "hg"]
    ELSE IF ctx.r = 1 THEN [rev |-> 0, kind |-> "hg"]
    ELSE nullsubrepostate

_comparesubstate(state1, state2) ==
    IF state1 = state2 THEN "C"
    ELSE IF state1 = nullsubrepostate THEN "A"
    ELSE IF state2 = nullsubrepostate THEN "R"
    ELSE "M"

(***************************************************************************)
(* ManifestModel: matcher, population and sort                             *)
(***************************************************************************)

Range(q) == {q[i] : i \in DOMAIN q}
IsPrefix(p, q) == Len(p) <= Len(q) /\ SubSeq(q, 1, Len(p)) = p

\* The name filters tried: none, a partial name, a pattern that does not
\* parse (matchmod.match raises and nothing matches).
NameFilters == {"", "c", "re:("}

\* _makematcher(repo, ctx, pat, changedonly) applied to a path
_makematcher(ctx, pat, changedonly, path) ==
    LET include == IF changedonly THEN ctxfiles(ctx) ELSE {}
    IN  IF changedonly /\ include = {} THEN FALSE
        ELSE IF pat = "re:(" THEN FALSE
        ELSE /\ pat = "" \/ pat \in Range(path)
             /\ changedonly => \E p \in include : IsPrefix(p, path)

\* The items a population puts into the tree: [path, status, subkind]
Item(path, st, kind) == [path |-> path, status |-> st, subkind |-> kind]

StatusLetters == {"M", "A", "R", "!", "?", "I", "C"}

\* The status filters tried; the default of the constructor is 'MASC'.
StatusFilters == {"MASC", "MAR", "MARSC", "S"}
FilterLetters(statusfilter) ==
    CASE statusfilter = "MASC" -> {"M", "A", "S", "C"}
      [] statusfilter = "MAR" -> {"M", "A", "R"}
      [] statusfilter = "MARSC" -> {"M", "A", "R", "S", "C"}
      [] statusfilter = "S" -> {"S"}

subreporecursive(nodeop) == nodeop = "_treenodeop"

\* The subrepo entry _populatesubrepos builds for a path: its status, its
\* kind and the children the recursive _populaterepo gives it.  The
\* children are the files of the subrepository between the two recorded
\* revisions, filtered by status and by subdirmatcher(path, match); there
\* are none if ctx.sub(path) raised (subfails).
SubrepoStatus(ctx, pctx, path) ==
    _comparesubstate(substate(pctx, path), substate(ctx, path))

SubrepoKind(ctx, pctx, path) ==
    IF SubrepoStatus(ctx, pctx, path) = "R" THEN substate(pctx, path).kind
    ELSE substate(ctx, path).kind

SubrepoChildren(ctx, pctx, path, nodeop, statusfilter, mctx, pat, changedonly, subfails) ==
    IF /\ subreporecursive(nodeop)
       /\ SubrepoKind(ctx, pctx, path) = "hg"
       /\ SubrepoStatus(ctx, pctx, path) # "R"
       /\ ~subfails
    THEN {Item(path \o f,
               statusletter(subcontent(f, substate(pctx, path).rev),
                            subcontent(f, substate(ctx, path).rev)),
               "None") :
            f \in {g \in SubFiles :
                    /\ statusletter(subcontent(g, substate(pctx, path).rev),
                                    subcontent(g, substate(ctx, path).rev))
                           \in StatusLetters \cap FilterLetters(statusfilter)
                    /\ _makematcher(mctx, pat, changedonly, path \o g)}}
    ELSE {}

\* The paths of pctx.substate and ctx.substate
subpaths(ctx, pctx) ==
    {path \in SubPaths : \/ substate(ctx, path) # nullsubrepostate
                         \/ substate(pctx, path) # nullsubrepostate}

\* The test without match(path)
SubrepoKept_statusonly(ctx, pctx, path, nodeop, statusfilter, mctx, pat, changedonly, subfails) ==
    \/ SubrepoChildren(ctx, pctx, path, nodeop, statusfilter, mctx, pat,
                       changedonly, subfails) # {}
    \/ SubrepoStatus(ctx, pctx, path) \in FilterLetters(statusfilter)

\* A subrepo is filtered out only if neither the node nor its children
\* match: the test `len(e) > 0 or (e.status in statusfilter and match(path))`
SubrepoKept(ctx, pctx, path, nodeop, statusfilter, mctx, pat, changedonly, subfails) ==
    \/ SubrepoChildren(ctx, pctx, path, nodeop, statusfilter, mctx, pat,
                       changedonly, subfails) # {}
    \/ /\ SubrepoStatus(ctx, pctx, path) \in FilterLetters(statusfilter)
       /\ _makematcher(mctx, pat, changedonly, path)

_populatesubrepos(ctx, pctx, nodeop, statusfilter, mctx, pat, changedonly, subfails) ==
    UNION {
        {Item(path, SubrepoStatus(ctx, pctx, path),
              SubrepoKind(ctx, pctx, path))}
        \cup SubrepoChildren(ctx, pctx, path, nodeop, statusfilter, mctx,
                             pat, changedonly, subfails) :
        path \in {q \in subpaths(ctx, pctx) :
                    SubrepoKept(ctx, pctx, q, nodeop, statusfilter, mctx,
                                pat, changedonly, subfails)}}

_populaterepo(ctx, pctx, nodeop, statusfilter, mctx, pat, changedonly, subfails) ==
    (IF "S" \in FilterLetters(statusfilter)
     THEN _populatesubrepos(ctx, pctx, nodeop, statusfilter, mctx, pat,
                            changedonly, subfails)
     ELSE {})
    \cup {Item(f, repostatus(pctx, ctx, f), "None") :
            f \in {g \in MainFiles :
                    /\ repostatus(pctx, ctx, g)
                           \in StatusLetters \cap FilterLetters(statusfilter)
                    /\ _makematcher(mctx, pat, changedonly, g)}}

\* _populatepatch without the test `st not in statusfilter`
_populatepatch_unfiltered(ctx, statusfilter, pat, changedonly) ==
    {Item(f, changesToParent(ctx, f), "None") :
        f \in {g \in PatchFiles \cup MainFiles :
                /\ changesToParent(ctx, g) \in {"M", "A", "R"}
                /\ _makematcher(ctx, pat, changedonly, g)}}

_populatepatch(ctx, statusfilter, pat, changedonly) ==
    {Item(f, changesToParent(ctx, f), "None") :
        f \in {g \in PatchFiles \cup MainFiles :
                /\ changesToParent(ctx, g) \in {"M", "A", "R"}
                                          \cap FilterLetters(statusfilter)
                /\ _makematcher(ctx, pat, changedonly, g)}}

\* Names of entries: one path component under _treenodeop, the whole path
\* under _listnodeop.  A key is the chain of names from the root.
EntryKey(nodeop, path) ==
    IF nodeop = "_treenodeop" THEN [i \in 1..Len(path) |-> <<path[i]>>]
    ELSE <<path>>

Prefixes(key) == {SubSeq(key, 1, n) : n \in 0..Len(key)}

\* Order of the names as Python orders the strings: by code point, '/'
\* before every letter, a proper prefix first.  os.path.normcase is the
\* identity on the names used (POSIX, or lower case only).
Rank(c) == CHOOSE i \in DOMAIN Alphabet : Alphabet[i] = c
normcase(name) == name

RECURSIVE NameLess(_, _)
NameLess(n1, n2) ==
    IF n1 = <<>> THEN n2 # <<>>
    ELSE IF n2 = <<>> THEN FALSE
    ELSE IF Head(n1) = Head(n2) THEN NameLess(Tail(n1), Tail(n2))
    ELSE Rank(Head(n1)) < Rank(Head(n2))

\* list.sort(key=lambda s: (not self[s].isdir, os.path.normcase(s)))
KeyLess(d1, n1, d2, n2) ==
    \/ d1 /\ ~d2
    \/ d1 = d2 /\ NameLess(normcase(n1), normcase(n2))

RECURSIVE SortNames(_, _)
\* list.sort(key=os.path.normcase): by name alone, directories not first
SortNames_byname(names, dirs) ==
    LET rest == names
    IN  [i \in 1..Cardinality(rest) |->
            CHOOSE x \in rest :
                Cardinality({y \in rest :
                    NameLess(normcase(y), normcase(x))}) = i - 1]

SortNames(names, dirs) ==
    LET rest == names
        isdir == dirs
        m == CHOOSE x \in rest : \A y \in rest \ {x} :
                 KeyLess(x \in isdir, x, y \in isdir, y)
    IN  IF rest = {} THEN <<>>
        ELSE <<m>> \o SortNames(rest \ {m}, isdir)

\* The tree _populateNodes leaves under the root entry: makepath/putpath
\* for every item, then roote.sort().  An entry is keyed by its chain of
\* names and holds status, subkind and the sorted _nameindex.
BuildTree(items, nodeop) ==
    LET made == items
        itemkeys == {EntryKey(nodeop, it.path) : it \in made}
        keys == UNION {Prefixes(k) : k \in itemkeys}
        children(k) == {kk[Len(k) + 1] :
                          kk \in {c \in keys : Len(c) = Len(k) + 1
                                               /\ IsPrefix(k, c)}}
        itemof(k) == CHOOSE it \in made : EntryKey(nodeop, it.path) = k
        subkindof(k) == IF k \in itemkeys THEN itemof(k).subkind ELSE "None"
        isdir(k) == subkindof(k) # "None" \/ children(k) # {}
    IN  [k \in keys \cup {<<>>} |->
            [status |-> IF k \in itemkeys THEN itemof(k).status ELSE "None",
             subkind |-> subkindof(k),
             nameindex |-> SortNames(children(k),
                              {n \in children(k) : isdir(Append(k, n))})]]

EmptyTree == BuildTree({}, "_treenodeop")

(***************************************************************************)
(* ManifestModel: the model object                                         *)
(***************************************************************************)

_isreporev(ctx) == ctx.t \in {"changectx", "workingctx"}

\* No fast way to detect changes in an uncommitted ctx: assumed different.
_samectx(ctx1, ctx2) ==
    IF ctx1.t = "workingctx" \/ ~_isreporev(ctx1) THEN FALSE
    ELSE ctx1 = ctx2

\* _newRevNode(rev, prev)
_newRevNode(rev, prev) ==
    LET ctx == repoctx(rev)
    IN  [ctx |-> ctx,
         pctx |-> IF prev = FirstParent THEN p1(ctx)
                  ELSE IF prev = SecondParent THEN p2(ctx)
                  ELSE changectx(prev),
         tree |-> EmptyTree]

\* _Entry.copyskel()
copyskel(e) == [ctx |-> e.ctx, pctx |-> e.pctx, tree |-> EmptyTree]

MaxRaised == 1         \* populations that raise in one run

\* _populateNodes(roote) raises if repo.status() or changesToParent()
\* does (fails), and if _populaterepo is given a patchctx, which
\* repo.status() does not take: that happens only after a setRev raised
\* between the assignment of self._populate and the one of
\* self._rootentry.
PopulateRaises(roote, populate, fails) ==
    \/ fails
    \/ populate = "_populaterepo" /\ roote.ctx.t = "patchctx"

\* The outcomes of repo.status() a call may meet
Fails == IF nraised < MaxRaised THEN BOOLEAN ELSE {FALSE}
\* The outcomes of ctx.sub(path) a call may meet; it does not matter once
\* repo.status() raises.
SubFails(fails) == IF fails THEN {FALSE} ELSE BOOLEAN
Raised(fails) ==
    nraised' = IF fails /\ mm_call' = "raised" THEN nraised + 1
               ELSE nraised

_populateNodes(roote, populate, nodeop, statusfilter, pat, changedonly, subfails) ==
    [roote EXCEPT !.tree =
        BuildTree(IF populate = "_populaterepo"
                  THEN _populaterepo(roote.ctx, roote.pctx, nodeop,
                                     statusfilter, roote.ctx, pat,
                                     changedonly, subfails)
                  ELSE _populatepatch(roote.ctx, statusfilter, pat,
                                      changedonly),
                  nodeop)]

\* canFetchMore without the test of parent.isValid()
canFetchMore_anyparent(parent) == ~_rootpopulated

canFetchMore(parent) ==
    IF parent # <<>> THEN FALSE ELSE ~_rootpopulated

\* The indexes a view passes: the invalid one (the root, <<>>) and a valid
\* one, that of the first top-level row.
ParentIndexes ==
    {<<>>} \cup {<<_rootentry.tree[<<>>].nameindex[i]>> :
                    i \in DOMAIN _rootentry.tree[<<>>].nameindex \cap {1}}

fetchMore(parent, fails, subfails) ==
    /\ UNCHANGED <<_populate, _namefilter, _statusfilter, _changedfilesonly,
                   _nodeop>>
    /\ IF parent # <<>> \/ _rootpopulated
       THEN /\ signals' = <<>>
            /\ mm_call' = "early"
            /\ UNCHANGED <<_rootentry, _rootpopulated>>
       ELSE IF PopulateRaises(_rootentry, _populate, fails)
       THEN /\ signals' = <<>>
            /\ mm_call' = "raised"
            /\ UNCHANGED <<_rootentry, _rootpopulated>>
       ELSE /\ _rootentry' = _populateNodes(copyskel(_rootentry), _populate,
                                 _nodeop, _statusfilter, _namefilter,
                                 _changedfilesonly, subfails)
            /\ _rootpopulated' = TRUE
            /\ signals' =
                  (IF _rootentry'.tree[<<>>].nameindex # <<>>
                   THEN <<"rowsAboutToBeInserted", "rowsInserted">>
                   ELSE <<>>) \o <<"revLoaded">>
            /\ mm_call' = "populated"
    /\ Raised(fails)
    /\ UNCHANGED <<scvars, rwvars, extvars>>

\* _repopulateNodes(newnodeop, newroote), called by a handler that has set
\* self._populate and the filters (the primed values); revloaded tells
\* whether the handler emits revLoaded afterwards if the root is populated.
_repopulateNodes(newnodeop, newroote, revloaded, fails, subfails) ==
    /\ UNCHANGED _rootpopulated
    /\ _nodeop' = newnodeop
    /\ IF ~_rootpopulated
       THEN /\ _rootentry' = newroote
            /\ signals' = <<>>
            /\ mm_call' = "deferred"
       ELSE IF PopulateRaises(newroote, _populate', fails)
       THEN /\ signals' = <<"layoutAboutToBeChanged", "layoutChanged">>
            /\ mm_call' = "raised"
            /\ UNCHANGED _rootentry
       ELSE /\ signals' = <<"layoutAboutToBeChanged", "layoutChanged">>
                          \o (IF revloaded THEN <<"revLoaded">> ELSE <<>>)
            /\ mm_call' = "populated"
            /\ _rootentry' = _populateNodes(newroote, _populate', newnodeop,
                                 _statusfilter', _namefilter',
                                 _changedfilesonly', subfails)

\* An early return that emits revLoaded all the same
ReturnsEarly_emits ==
    /\ signals' = <<"revLoaded">>
    /\ mm_call' = "early"
    /\ UNCHANGED <<_rootentry, _populate, _rootpopulated, _namefilter,
                   _statusfilter, _changedfilesonly, _nodeop>>

\* A call that returns before it changes anything
ReturnsEarly ==
    /\ signals' = <<>>
    /\ mm_call' = "early"
    /\ UNCHANGED <<_rootentry, _populate, _rootpopulated, _namefilter,
                   _statusfilter, _changedfilesonly, _nodeop>>

\* The body of setRev, also reached from setRawContext
setRevAs(rev, prev, fails, subfails) ==
    LET newroote == _newRevNode(rev, prev)
    IN  IF /\ _samectx(newroote.ctx, _rootentry.ctx)
           /\ _samectx(newroote.pctx, _rootentry.pctx)
        THEN ReturnsEarly
        ELSE /\ _populate' = "_populaterepo"
             /\ UNCHANGED <<_namefilter, _statusfilter, _changedfilesonly>>
             /\ _repopulateNodes(_nodeop, newroote, TRUE, fails, subfails)

setRev(rev, prev, fails, subfails) ==
    /\ setRevAs(rev, prev, fails, subfails)
    /\ Raised(fails)
    /\ UNCHANGED <<scvars, rwvars, extvars>>

\* setRawContext(ctx): a changectx or workingctx of the repository goes to
\* setRev(ctx.rev()), a patchctx becomes the root itself.
setRawContext(ctx, fails, subfails) ==
    /\ IF _samectx(_rootentry.ctx, ctx)
       THEN ReturnsEarly
       ELSE IF _isreporev(ctx)
       THEN setRevAs(IF ctx.t = "workingctx" THEN None ELSE ctx.r,
                     FirstParent, fails, subfails)
       ELSE /\ _populate' = "_populatepatch"
            /\ UNCHANGED <<_namefilter, _statusfilter, _changedfilesonly>>
            /\ _repopulateNodes(_nodeop,
                                [ctx |-> ctx, pctx |-> NoCtx,
                                 tree |-> EmptyTree],
                                TRUE, fails, subfails)
    /\ Raised(fails)
    /\ UNCHANGED <<scvars, rwvars, extvars>>

setNameFilter(pattern, fails, subfails) ==
    /\ IF _namefilter = pattern
       THEN ReturnsEarly
       ELSE /\ _namefilter' = pattern
            /\ UNCHANGED <<_populate, _statusfilter, _changedfilesonly>>
            /\ _repopulateNodes(_nodeop,
                                copyskel(_rootentry), FALSE, fails, subfails)
    /\ Raised(fails)
    /\ UNCHANGED <<scvars, rwvars, extvars>>

setStatusFilter(status, fails, subfails) ==
    /\ IF _statusfilter = status
       THEN ReturnsEarly
       ELSE /\ _statusfilter' = status
            /\ UNCHANGED <<_populate, _namefilter, _changedfilesonly>>
            /\ _repopulateNodes(_nodeop,
                                copyskel(_rootentry), FALSE, fails, subfails)
    /\ Raised(fails)
    /\ UNCHANGED <<scvars, rwvars, extvars>>

setChangedFilesOnly(changedonly, fails, subfails) ==
    /\ IF _changedfilesonly = changedonly
       THEN ReturnsEarly
       ELSE /\ _changedfilesonly' = changedonly
            /\ UNCHANGED <<_populate, _namefilter, _statusfilter>>
            /\ _repopulateNodes(_nodeop,
                                copyskel(_rootentry), FALSE, fails, subfails)
    /\ Raised(fails)
    /\ UNCHANGED <<scvars, rwvars, extvars>>

isFlat == _nodeop = "_listnodeop"
_nodeopmap(flat) == IF flat THEN "_listnodeop" ELSE "_treenodeop"

setFlat(flat, fails, subfails) ==
    /\ IF isFlat = flat
       THEN ReturnsEarly
       ELSE /\ UNCHANGED <<_populate, _namefilter, _statusfilter,
                           _changedfilesonly>>
            /\ _repopulateNodes(_nodeopmap(flat),
                                copyskel(_rootentry), FALSE, fails, subfails)
    /\ Raised(fails)
    /\ UNCHANGED <<scvars, rwvars, extvars>>

\* ManifestModel(repoagent): rev=None, namefilter=None, statusfilter='MASC',
\* flat=False
InitManifestModel ==
    /\ _namefilter = ""
    /\ _statusfilter = "MASC"
    /\ _changedfilesonly = FALSE
    /\ _nodeop = _nodeopmap(FALSE)
    /\ _rootentry = _newRevNode(None, FirstParent)
    /\ _populate = "_populaterepo"
    /\ _rootpopulated = FALSE
    /\ signals = <<>>
    /\ mm_call = "deferred"
    /\ nraised = 0

RevArgs == {None} \cup 0..MTip
PrevArgs == {FirstParent, SecondParent, MTip}
RawContexts == {patchctx, workingctx} \cup {changectx(r) : r \in 0..MTip}

NextManifest ==
    \/ \E parent \in ParentIndexes, fails \in Fails :
           \E subfails \in SubFails(fails) :
               fetchMore(parent, fails, subfails)
    \/ \E rev \in RevArgs, prev \in PrevArgs, fails \in Fails :
           \E subfails \in SubFails(fails) :
               setRev(rev, prev, fails, subfails)
    \/ \E ctx \in RawContexts, fails \in Fails :
           \E subfails \in SubFails(fails) :
               setRawContext(ctx, fails, subfails)
    \/ \E pattern \in NameFilters, fails \in Fails :
           \E subfails \in SubFails(fails) :
               setNameFilter(pattern, fails, subfails)
    \/ \E status \in StatusFilters, fails \in Fails :
           \E subfails \in SubFails(fails) :
               setStatusFilter(status, fails, subfails)
    \/ \E changedonly \in BOOLEAN, fails \in Fails :
           \E subfails \in SubFails(fails) :
               setChangedFilesOnly(changedonly, fails, subfails)
    \/ \E flat \in BOOLEAN, fails \in Fails :
           \E subfails \in SubFails(fails) :
               setFlat(flat, fails, subfails)

(***************************************************************************)
(* ShortcutSettingsDialog: edits a copy of the action registry             *)
(***************************************************************************)

\* The model holds a QKeySequence as its portable text; toString() gives
\* the text stored in the settings file.
toString(b) == [text |-> b]

_formatKeySequences(seqs) == [i \in DOMAIN seqs |-> toString(seqs[i])]

\* dict.copy(): a new dictionary holding the same lists
copyShortcuts(keys) == [n \in DOMAIN keys |-> keys[n]]

updateShortcuts(keys) == [n \in DOMAIN keys |-> keys[n]]

\* saveSettings(): setValue for the names with user keys, remove for the rest
saveSettings(keys, qs) ==
    [n \in (DOMAIN qs \ (allNames \ DOMAIN keys)) \cup DOMAIN keys |->
        IF n \in DOMAIN keys THEN _formatKeySequences(keys[n]) ELSE qs[n]]

\* keySequences() of a registry whose _userKeys is keys
keySequencesOf(keys, name) ==
    IF name \in DOMAIN keys THEN keys[name] ELSE defaultKeySequences(name)

\* _updateActions(): the shortcuts set on the actions registered to name
_updateActions(keys, name) == keySequencesOf(keys, name)

\* applyChangesToActions(): every name of _actionsMap gets its shortcuts
applyChangesToActions(keys, actions) ==
    [n \in DOMAIN actions |-> _updateActions(keys, n)]

\* ActionRegistry.registerAction: RepoWidget registers an action per name
registerAction(name) ==
    /\ dialog # "open"
    /\ name \notin DOMAIN actionShortcuts
    /\ actionShortcuts' =
         [n \in DOMAIN actionShortcuts \cup {name} |->
             IF n = name THEN _updateActions(userKeys, name)
             ELSE actionShortcuts[n]]
    /\ sd_calls' = <<"registerAction">>
    /\ UNCHANGED <<dialog, w_userKeys, currentName, qsettings>>
    /\ UNCHANGED <<scvars, beside_sd>>

\* ShortcutSettingsDialog.__init__: the widget gets registry.copyShortcuts()
\* and starts without a current item.
ShortcutSettingsDialog ==
    /\ dialog # "open"
    /\ dialog' = "open"
    /\ w_userKeys' = copyShortcuts(userKeys)
    /\ currentName' = ""
    /\ sd_calls' = <<"copyShortcuts">>
    /\ UNCHANGED <<qsettings, actionShortcuts>>
    /\ UNCHANGED <<scvars, beside_sd>>

\* The user makes a row of the view current (currentRowChanged).
setCurrentItem(name) ==
    /\ dialog = "open"
    /\ currentName # name
    /\ currentName' = name
    /\ sd_calls' = <<>>
    /\ UNCHANGED <<dialog, w_userKeys, qsettings, actionShortcuts>>
    /\ UNCHANGED <<scvars, beside_sd>>

\* The key edit and the two buttons are enabled with a current item only.
\* b is the key edit's sequence, "" when it is empty.
KeyEdits == {"Ctrl+K", "Del", ""}

_applyCurrent(b) ==
    /\ dialog = "open"
    /\ currentName # ""
    /\ w_userKeys' = StoreUserKeys(w_userKeys, currentName,
                                   IF b = "" THEN <<>> ELSE <<b>>)
    /\ sd_calls' = <<"setUserKeySequences">>
    /\ UNCHANGED <<dialog, currentName, qsettings, actionShortcuts>>
    /\ UNCHANGED <<scvars, beside_sd>>

_clearCurrent ==
    /\ dialog = "open"
    /\ currentName # ""
    /\ w_userKeys' = StoreUserKeys(w_userKeys, currentName, <<>>)
    /\ sd_calls' = <<"setUserKeySequences">>
    /\ UNCHANGED <<dialog, currentName, qsettings, actionShortcuts>>
    /\ UNCHANGED <<scvars, beside_sd>>

_resetCurrentToDefault ==
    /\ dialog = "open"
    /\ currentName # ""
    /\ w_userKeys' = DropUserKeys(w_userKeys, currentName)
    /\ sd_calls' = <<"unsetUserKeySequences">>
    /\ UNCHANGED <<dialog, currentName, qsettings, actionShortcuts>>
    /\ UNCHANGED <<scvars, beside_sd>>

\* accept() with saveSettings() called before updateShortcuts()
accept_savesfirst ==
    /\ dialog = "open"
    /\ dialog' = "accepted"
    /\ qsettings' = saveSettings(userKeys, qsettings)
    /\ userKeys' = updateShortcuts(w_userKeys)
    /\ actionShortcuts' = applyChangesToActions(userKeys', actionShortcuts)
    /\ sd_calls' = <<"saveSettings", "updateShortcuts",
                     "applyChangesToActions", "QDialog.accept">>
    /\ UNCHANGED <<w_userKeys, currentName, sc_call>>
    /\ UNCHANGED beside_sd

accept ==
    /\ dialog = "open"
    /\ dialog' = "accepted"
    /\ userKeys' = updateShortcuts(w_userKeys)
    /\ qsettings' = saveSettings(userKeys', qsettings)
    /\ actionShortcuts' = applyChangesToActions(userKeys', actionShortcuts)
    /\ sd_calls' = <<"updateShortcuts", "saveSettings",
                     "applyChangesToActions", "QDialog.accept">>
    /\ UNCHANGED <<w_userKeys, currentName, sc_call>>
    /\ UNCHANGED beside_sd

\* QDialog.reject(): the Cancel button, not overridden by the dialog
reject ==
    /\ dialog = "open"
    /\ dialog' = "rejected"
    /\ sd_calls' = <<"QDialog.reject">>
    /\ UNCHANGED <<w_userKeys, currentName, qsettings, actionShortcuts>>
    /\ UNCHANGED <<scvars, beside_sd>>

InitShortcutDialog ==
    /\ dialog = "none"
    /\ w_userKeys = [n \in {} |-> <<>>]
    /\ currentName = ""
    /\ qsettings = [n \in {} |-> <<>>]
    /\ actionShortcuts = [n \in {} |-> <<>>]
    /\ sd_calls = <<>>

NextShortcutDialog ==
    \/ \E name \in allNames : registerAction(name)
    \/ ShortcutSettingsDialog
    \/ \E name \in allNames : setCurrentItem(name)
    \/ _clearCurrent
    \/ \E b \in KeyEdits : _applyCurrent(b)
    \/ _resetCurrentToDefault
    \/ accept
    \/ reject

(***************************************************************************)
(* GraftDialog: the buttons, the status bar links and the command session  *)
(* The model keeps what decides which handler can run: the state of the    *)
(* three buttons, the message of the status bar (its links), the cleaner's *)
(* check, the session and the repository's graft and merge state.  The     *)
(* changeset list and the titles are display only and left out.            *)
(***************************************************************************)

\* cmdcore.nullCmdSession(): a session that is finished from the start
nullCmdSession ==
    [finished |-> TRUE, slot |-> "none",
     cmdline |-> [cmd |-> "", args |-> <<>>, opts |-> {}]]

\* self._repoagent.runCommand(cmdline, self): a session that is not finished
\* until the command has run; slot is what commandFinished gets connected to
runCommand(cmdline, slot) ==
    [finished |-> FALSE, slot |-> slot, cmdline |-> cmdline]

\* The revisions the dialog was opened for, and the option check boxes
sourcelist == <<"2", "3">>
OptionNames == {"currentuser", "currentdate", "log", "autoresolve"}

\* hglib.buildcmdargs('graft', *args, **opts) of graft(): the checked
\* options but autoresolve, which selects the merge tool of --config
graftcmdline ==
    [cmd |-> "graft",
     args |-> IF graftstate THEN <<>> ELSE sourcelist,
     opts |-> {n \in OptionNames \ {"autoresolve"} : _optchks[n]}
              \cup {IF _optchks["autoresolve"]
                    THEN "config=ui.merge=internal:merge"
                    ELSE "config=ui.merge=internal:fail"}
              \cup (IF graftstate THEN {"continue"} ELSE {})]

\* hglib.buildcmdargs('graft', abort=True)
abortcmdline == [cmd |-> "graft", args |-> <<>>, opts |-> {"abort"}]

graft_in_progress == graftstate

\* checkResolve(): what it leaves of the buttons and the status bar, and
\* what it returns, for a repository state
checkResolve(state, merge_u) ==
    [graftbtn_enabled |-> ~merge_u,
     msg |-> IF merge_u THEN "conflicts" ELSE "maycontinue",
     abortbtn |-> state,
     continue |-> state,
     ret |-> state]

\* graft(): the slot of the Graft/Continue button.  The lines before
\* _runCommand take effect also when its assertion fails.
graft ==
    /\ gd_result = "open"
    /\ graftbtn.enabled /\ graftbtn.slot = "graft"
    /\ graftbtn' = [graftbtn EXCEPT !.enabled = FALSE]
    /\ cancelbtn' = FALSE
    /\ IF _cmdsession.finished
       THEN /\ _cmdsession' = runCommand(graftcmdline, "_graftFinished")
            /\ _stbar' = "status"
            /\ gd_call' = "graft"
       ELSE /\ gd_call' = "AssertionError"
            /\ UNCHANGED <<_cmdsession, _stbar>>
    /\ UNCHANGED <<abortbtn, graftstate, unresolved, isChecking, _cmdlog,
                   gd_result, _optchks>>
    /\ UNCHANGED <<graft_qs, scvars, beside_gd>>

\* abort(): the slot of the Abort button
abort ==
    /\ gd_result = "open"
    /\ abortbtn
    /\ abortbtn' = FALSE
    /\ IF _cmdsession.finished
       THEN /\ _cmdsession' = runCommand(abortcmdline, "_abortFinished")
            /\ _stbar' = "status"
            /\ gd_call' = "abort"
       ELSE /\ gd_call' = "AssertionError"
            /\ UNCHANGED <<_cmdsession, _stbar>>
    /\ UNCHANGED <<graftbtn, cancelbtn, graftstate, unresolved, isChecking,
                   _cmdlog, gd_result, _optchks>>
    /\ UNCHANGED <<graft_qs, scvars, beside_gd>>

\* What a command can leave: the graft done or aborted, the graft
\* interrupted by conflicts (a graft command only), or a failure (255)
\* that leaves the repository as it was.
Outcomes == {"done", "conflicts", "failed"}
CommandLeaves(outcome) ==
    CASE outcome = "done" -> [ret |-> 0, state |-> FALSE, merge_u |-> FALSE]
      [] outcome = "conflicts" -> [ret |-> 1, state |-> TRUE, merge_u |-> TRUE]
      [] outcome = "failed" ->
             [ret |-> 255, state |-> graftstate, merge_u |-> unresolved]

\* _makeCloseButton()
_makeCloseButton == [enabled |-> TRUE, text |-> "Close", slot |-> "accept"]

\* commandFinished of the running session: _graftFinished(ret) or
\* _abortFinished(), on the repository the command left
commandFinished(outcome) ==
    /\ ~_cmdsession.finished
    /\ outcome = "conflicts" => _cmdsession.slot = "_graftFinished"
    /\ _cmdsession' = [_cmdsession EXCEPT !.finished = TRUE]
    /\ graftstate' = CommandLeaves(outcome).state
    /\ unresolved' = CommandLeaves(outcome).merge_u
    /\ LET out == CommandLeaves(outcome)
           r == checkResolve(out.state, out.merge_u)
       IN  /\ abortbtn' = r.abortbtn
           /\ IF r.ret
              THEN /\ graftbtn' = [graftbtn EXCEPT !.enabled = r.graftbtn_enabled,
                                                   !.text = "Continue"]
                   /\ _stbar' = r.msg
                   /\ UNCHANGED _cmdlog
              ELSE /\ graftbtn' = _makeCloseButton
                   /\ _stbar' =
                        IF _cmdsession.slot = "_abortFinished" THEN "aborted"
                        ELSE IF out.ret = 255 THEN "failed" ELSE "complete"
                   /\ _cmdlog' = (_cmdlog \/ (/\ out.ret = 255
                                              /\ _cmdsession.slot = "_graftFinished"))
    /\ gd_call' = _cmdsession.slot
    /\ UNCHANGED <<cancelbtn, isChecking, gd_result, _optchks>>
    /\ UNCHANGED <<graft_qs, scvars, beside_gd>>

\* _onCheckFinished(clean): the cleaner's check of the working directory
_onCheckFinished(clean) ==
    /\ isChecking
    /\ isChecking' = FALSE
    /\ graftbtn' = [graftbtn EXCEPT !.enabled = clean]
    /\ _stbar' = IF clean THEN "maystart" ELSE "dirty"
    /\ gd_call' = "_onCheckFinished"
    /\ UNCHANGED <<_cmdsession, abortbtn, cancelbtn, graftstate, unresolved,
                   _cmdlog, gd_result, _optchks>>
    /\ UNCHANGED <<graft_qs, scvars, beside_gd>>

\* linkActivated('resolve'): the link of the conflicts message.  The
\* resolve dialog runs modally and may resolve the files; checkResolve()
\* follows.
linkActivated_resolve(resolved) ==
    /\ gd_result = "open"
    /\ _stbar = "conflicts"
    /\ unresolved' = (unresolved /\ ~resolved)
    /\ LET r == checkResolve(graftstate, unresolved')
       IN  /\ graftbtn' = [graftbtn EXCEPT
                              !.enabled = r.graftbtn_enabled,
                              !.text = IF r.continue THEN "Continue" ELSE @]
           /\ abortbtn' = r.abortbtn
           /\ _stbar' = r.msg
    /\ gd_call' = "linkActivated"
    /\ UNCHANGED <<_cmdsession, cancelbtn, graftstate, isChecking, _cmdlog,
                   gd_result, _optchks>>
    /\ UNCHANGED <<graft_qs, scvars, beside_gd>>

\* linkActivated(cmd) for commit, shelve, discard: the links of the dirty
\* message; the cleaner runs and checks the working directory again.
linkActivated_cleaner ==
    /\ gd_result = "open"
    /\ _stbar = "dirty"
    /\ ~isChecking
    /\ isChecking' = TRUE
    /\ gd_call' = "linkActivated"
    /\ UNCHANGED <<_cmdsession, graftbtn, abortbtn, cancelbtn, graftstate,
                   unresolved, _stbar, _cmdlog, gd_result, _optchks>>
    /\ UNCHANGED <<graft_qs, scvars, beside_gd>>

\* The user checks or unchecks an option
toggled(n) ==
    /\ gd_result = "open"
    /\ _optchks' = [_optchks EXCEPT ![n] = ~@]
    /\ gd_call' = "toggled"
    /\ UNCHANGED <<_cmdsession, graftbtn, abortbtn, cancelbtn, graftstate,
                   unresolved, isChecking, _stbar, _cmdlog, gd_result>>
    /\ UNCHANGED <<graft_qs, scvars, beside_gd>>

\* _writeSettings(), called by done(): the options as checked
_writeSettings == _optchks

\* accept(): the slot of the button once it reads Close, and done()
graftaccept ==
    /\ gd_result = "open"
    /\ graftbtn.enabled /\ graftbtn.slot = "accept"
    /\ gd_result' = "accepted"
    /\ gd_call' = "accept"
    /\ graft_qs' = _writeSettings
    /\ UNCHANGED <<_cmdsession, graftbtn, abortbtn, cancelbtn, graftstate,
                   unresolved, isChecking, _stbar, _cmdlog, _optchks>>
    /\ UNCHANGED <<scvars, beside_gd>>

\* reject(): Cancel, Esc or the window's close button; exit is the answer
\* to the question asked when a graft is in progress.  done() follows
\* when the dialog closes.
graftreject(exit) ==
    /\ gd_result = "open"
    /\ gd_result' = IF isChecking \/ (graft_in_progress /\ ~exit) THEN "open"
                    ELSE "rejected"
    /\ gd_call' = "reject"
    /\ graft_qs' = IF gd_result' = "rejected" THEN _writeSettings
                   ELSE graft_qs
    /\ UNCHANGED <<_cmdsession, graftbtn, abortbtn, cancelbtn, graftstate,
                   unresolved, isChecking, _stbar, _cmdlog, _optchks>>
    /\ UNCHANGED <<scvars, beside_gd>>

\* GraftDialog.__init__ on a repository with or without an interrupted
\* graft, with or without unresolved files
InitGraftDialog ==
    /\ graftstate \in BOOLEAN
    /\ unresolved \in BOOLEAN
    /\ _cmdsession = nullCmdSession
    /\ cancelbtn = TRUE
    /\ _cmdlog = FALSE
    /\ gd_result = "open"
    /\ gd_call = "__init__"
    /\ graft_qs = [n \in {} |-> FALSE]
    /\ _optchks = [n \in OptionNames |->
                      IF n \in DOMAIN graft_qs THEN graft_qs[n]
                      ELSE n = "autoresolve"]
    /\ LET r == checkResolve(graftstate, unresolved)
       IN  IF r.ret
           THEN /\ graftbtn = [enabled |-> r.graftbtn_enabled,
                               text |-> "Continue", slot |-> "graft"]
                /\ abortbtn = TRUE
                /\ _stbar = r.msg
                /\ isChecking = FALSE
           ELSE /\ graftbtn = [enabled |-> FALSE, text |-> "Graft",
                               slot |-> "graft"]
                /\ abortbtn = FALSE
                /\ _stbar = "checking"
                /\ isChecking = TRUE

NextGraftDialog ==
    \/ graft
    \/ abort
    \/ \E outcome \in Outcomes : commandFinished(outcome)
    \/ \E n \in OptionNames : toggled(n)
    \/ \E clean \in BOOLEAN : _onCheckFinished(clean)
    \/ \E resolved \in BOOLEAN : linkActivated_resolve(resolved)
    \/ linkActivated_cleaner
    \/ graftaccept
    \/ \E exit \in BOOLEAN : graftreject(exit)

\* A dialog on a repository without a graft in progress
IdleGraftDialog ==
    /\ InitGraftDialog
    /\ ~graftstate
    /\ ~unresolved

(***************************************************************************)
(* PostReviewDialog: the post command, its retry and the end of the dialog *)
(* The model keeps the password, the form fields isValid() reads, the      *)
(* selected revisions, the two buttons, the progress widgets, the loader   *)
(* thread, the session and what the dialog has returned.  The command line *)
(* carries the revision and the password; the other form options are left  *)
(* out.                                                                    *)
(***************************************************************************)

AllRevs == {0, 1}                  \* the revisions the dialog was opened for
Passwords == {"pw1", "pw2"}        \* "" stands for None and for no input
Outputs == {"saved", "published", "authfail", "error"}

\* isValid(): a repository is chosen, on the update tab a review is chosen,
\* and the dialog has revisions
isValidFor(repo_combo, review_combo, tabindex) ==
    /\ repo_combo
    /\ tabindex = 1 => review_combo
    /\ AllRevs # {}

isValid == isValidFor(repo_id_combo, review_id_combo, tab_widget)

\* accept() from the point where self.password is pw: what it does to the
\* session.  "invalid" and "nopassword" are its early returns; with no
\* selected revision self.selectedRevs.pop() raises IndexError.
PostCase(pw) ==
    IF ~isValid THEN "invalid"
    ELSE IF pw = "" THEN "nopassword"
    ELSE IF selectedRevs = {} THEN "IndexError"
    ELSE "posted"

postcmdline(pw) ==
    [cmd |-> "postreview", password |-> pw, revstr |-> Max(selectedRevs)]

\* accept(): the Post Review button, Ctrl+Return or Ctrl+Enter.  input is
\* what the password prompt gives when it is shown ("" when cancelled).
postaccept(input) ==
    /\ pr_result = "open"
    /\ LET pw == IF password # "" THEN password ELSE input
           case == PostCase(pw)
       IN  /\ password' = IF isValid THEN pw ELSE password
           /\ progress' = (progress \/ case \in {"IndexError", "posted"})
           /\ IF case = "posted"
              THEN /\ pr_cmdsession' = [finished |-> FALSE, aborted |-> FALSE,
                                        cmdline |-> postcmdline(pw)]
                   /\ post_review_button' = FALSE
                   /\ close_button' = FALSE
                   /\ _cmdoutputs' = ""
              ELSE UNCHANGED <<pr_cmdsession, post_review_button,
                               close_button, _cmdoutputs>>
           /\ pr_calls' = <<"accept", case>>
    /\ UNCHANGED <<repo_id_combo, review_id_combo, tab_widget, selectedRevs,
                   review_thread, pr_result>>
    /\ UNCHANGED <<scvars, beside_pr>>

\* commandFinished of the session: onCompletion() on the output the command
\* gave.  input is what the password prompt gives after a basic auth failure.
onCompletion(output, input) ==
    /\ ~pr_cmdsession.finished
    /\ _cmdoutputs' = IF output = "authfail" /\ input # ""
                         /\ PostCase(input) = "posted"
                      THEN "" ELSE output
    /\ IF output \in {"saved", "published"}
       THEN /\ pr_calls' = <<"openUrl", "InfoMsgBox", "writeSettings",
                             "QDialog.accept">>
            /\ pr_result' = "accepted"
            /\ pr_cmdsession' = [pr_cmdsession EXCEPT !.finished = TRUE]
            /\ progress' = FALSE
            /\ UNCHANGED <<password, post_review_button, close_button>>
       ELSE IF output = "error"
       THEN /\ pr_calls' = <<"ErrorMsgBox", "writeSettings", "QDialog.accept">>
            /\ pr_result' = "accepted"
            /\ pr_cmdsession' = [pr_cmdsession EXCEPT !.finished = TRUE]
            /\ progress' = FALSE
            /\ UNCHANGED <<password, post_review_button, close_button>>
       ELSE IF input = ""
       THEN \* the prompt was cancelled: the buttons come back, return
            /\ pr_calls' = <<"passwordPrompt">>
            /\ password' = ""
            /\ post_review_button' = TRUE
            /\ close_button' = TRUE
            /\ pr_cmdsession' = [pr_cmdsession EXCEPT !.finished = TRUE]
            /\ progress' = FALSE
            /\ UNCHANGED pr_result
       ELSE \* a new password: self.accept(), then the lines after the else
            /\ password' = input
            /\ progress' = (PostCase(input) \in {"IndexError", "posted"})
            /\ IF PostCase(input) = "posted"
               THEN /\ pr_cmdsession' = [finished |-> FALSE, aborted |-> FALSE,
                                         cmdline |-> postcmdline(input)]
                    /\ post_review_button' = FALSE
                    /\ close_button' = FALSE
               ELSE /\ pr_cmdsession' = [pr_cmdsession EXCEPT !.finished = TRUE]
                    /\ UNCHANGED <<post_review_button, close_button>>
            /\ IF PostCase(input) = "IndexError"
               THEN /\ pr_calls' = <<"passwordPrompt", "accept", "IndexError">>
                    /\ UNCHANGED pr_result
               ELSE /\ pr_calls' = <<"passwordPrompt", "accept",
                                     PostCase(input), "writeSettings",
                                     "QDialog.accept">>
                    /\ pr_result' = "accepted"
    /\ UNCHANGED <<repo_id_combo, review_id_combo, tab_widget, selectedRevs,
                   review_thread>>
    /\ UNCHANGED <<scvars, beside_pr>>

\* closeEvent(): a running command is aborted and the event ignored;
\* otherwise the thread is disposed of, the settings written, the dialog
\* closed.  Returns [session, thread, result, calls].
closeEventOn(sess, thread) ==
    IF ~sess.finished
    THEN [session |-> [sess EXCEPT !.aborted = TRUE], thread |-> thread,
          result |-> "open", calls |-> <<"abort", "ignore">>]
    ELSE [session |-> sess, thread |-> "terminated",
          result |-> "closed", calls |-> <<"writeSettings", "closeEvent">>]

\* The Close button or the window's close button
closeEvent ==
    /\ pr_result = "open"
    /\ LET r == closeEventOn(pr_cmdsession, review_thread)
       IN  /\ pr_cmdsession' = r.session
           /\ review_thread' = r.thread
           /\ pr_result' = r.result
           /\ pr_calls' = r.calls
    /\ UNCHANGED <<password, repo_id_combo, review_id_combo, tab_widget,
                   selectedRevs, post_review_button, close_button, progress,
                   _cmdoutputs>>
    /\ UNCHANGED <<scvars, beside_pr>>

\* review_thread.finished: errorPrompt().  The thread has set an error
\* message, or it has loaded the combo boxes (repos, reviews: whether each
\* got an item).
errorPrompt(error_message, repos, reviews) ==
    /\ review_thread = "running"
    /\ pr_result = "open"
    /\ progress' = FALSE
    /\ IF error_message
       THEN /\ LET r == closeEventOn(pr_cmdsession, "finished")
               IN  /\ pr_cmdsession' = r.session
                   /\ review_thread' = r.thread
                   /\ pr_result' = r.result
                   /\ pr_calls' = <<"ErrorMsgBox", "close">> \o r.calls
            /\ UNCHANGED <<repo_id_combo, review_id_combo,
                           post_review_button>>
       ELSE /\ review_thread' = "finished"
            /\ repo_id_combo' = repos
            /\ review_id_combo' = reviews
            /\ post_review_button' =
                 (post_review_button
                  \/ isValidFor(repos, reviews, tab_widget))
            /\ pr_calls' = <<"errorPrompt">>
            /\ UNCHANGED <<pr_cmdsession, pr_result>>
    /\ UNCHANGED <<password, tab_widget, selectedRevs, close_button,
                   _cmdoutputs>>
    /\ UNCHANGED <<scvars, beside_pr>>

\* tabChanged(): the user shows the other tab
tabChanged(tabindex) ==
    /\ pr_result = "open"
    /\ tab_widget # tabindex
    /\ tab_widget' = tabindex
    /\ post_review_button' =
         isValidFor(repo_id_combo, review_id_combo, tabindex)
    /\ pr_calls' = <<"tabChanged">>
    /\ UNCHANGED <<password, repo_id_combo, review_id_combo, selectedRevs,
                   close_button, progress, review_thread, pr_cmdsession,
                   _cmdoutputs, pr_result>>
    /\ UNCHANGED <<scvars, beside_pr>>

\* The user checks or unchecks a changeset of the list
setSelected(rev) ==
    /\ pr_result = "open"
    /\ selectedRevs' = IF rev \in selectedRevs THEN selectedRevs \ {rev}
                       ELSE selectedRevs \cup {rev}
    /\ pr_calls' = <<"setData">>
    /\ UNCHANGED <<password, repo_id_combo, review_id_combo, tab_widget,
                   post_review_button, close_button, progress, review_thread,
                   pr_cmdsession, _cmdoutputs, pr_result>>
    /\ UNCHANGED <<scvars, beside_pr>>

\* PostReviewDialog.__init__: the password comes from the configuration
InitPostReviewDialog ==
    /\ password \in Passwords \cup {""}
    /\ repo_id_combo = FALSE
    /\ review_id_combo = FALSE
    /\ tab_widget = 0
    /\ selectedRevs = AllRevs
    /\ post_review_button = FALSE
    /\ close_button = TRUE
    /\ progress = TRUE
    /\ review_thread = "running"
    /\ pr_cmdsession = [finished |-> TRUE, aborted |-> FALSE,
                        cmdline |-> [cmd |-> "", password |-> "",
                                     revstr |-> -1]]
    /\ _cmdoutputs = ""
    /\ pr_result = "open"
    /\ pr_calls = <<"__init__">>

IdlePostReviewDialog ==
    /\ InitPostReviewDialog
    /\ password = ""

NextPostReviewDialog ==
    \/ \E input \in Passwords \cup {""} : postaccept(input)
    \/ \E output \in Outputs, input \in Passwords \cup {""} :
           onCompletion(output, input)
    \/ closeEvent
    \/ \E error_message, repos, reviews \in BOOLEAN :
           errorPrompt(error_message, repos, reviews)
    \/ \E tabindex \in {0, 1} : tabChanged(tabindex)
    \/ \E rev \in AllRevs : setSelected(rev)

(***************************************************************************)
(* UpdateWidget.runCommand: the command line of an update                  *)
(* The widget's check boxes and combo boxes are set by the user; the       *)
(* repository (bookmarks of the target, state of the working directory) is *)
(* any that the dialog can be opened on; the answers to the prompts are    *)
(* inputs of runCommand().  uw_run keeps what the last call read and gave  *)
(* back.                                                                   *)
(***************************************************************************)

BookmarkModes == {"never", "auto", "prompt"}      \* tortoisehg.activatebookmarks
BookmarkLists == {<<>>, <<"bm1">>, <<"bm1", "bm2">>}  \* bookmarks of the target
RevTexts == {"1", "bm1"}                          \* rev_combo.currentText()
PathNames == {"default", "upstream"}              \* path_combo.currentText()
Clicked == {"discard", "shelve", "merge", "cancel"}   \* confirmupdate()

\* The part of runCommand that asks about bookmarks.  It gives the revision
\* to update to (kind "rev"), the bookmark to deactivate (kind "bookmark")
\* or nothing to run (kind "null"), and the prompts it showed.
BookmarkStage(mode, bms, rev, active, activate, choice, deactivate) ==
    IF mode # "never" /\ bms # <<>> /\ rev \notin Range(bms)
    THEN LET asked ==
                 IF Len(bms) = 1
                 THEN IF mode = "auto" THEN <<>>
                      ELSE << <<"Activate bookmark?",
                                IF activate THEN "yes" ELSE "no">> >>
                 ELSE << <<"ChoicePrompt", choice>> >>
             selectedbookmark ==
                 IF Len(bms) = 1
                 THEN IF mode = "auto" \/ activate THEN bms[1] ELSE ""
                 ELSE choice
         IN  IF selectedbookmark # ""
             THEN [kind |-> "rev", rev |-> selectedbookmark,
                   prompts |-> asked]
             ELSE IF active # "" /\ active \in Range(bms)
             THEN [kind |-> IF deactivate THEN "bookmark" ELSE "null",
                   rev |-> active,
                   prompts |-> Append(asked,
                       <<"Deactivate current bookmark?",
                         IF deactivate THEN "yes" ELSE "no">>)]
             ELSE [kind |-> "rev", rev |-> rev, prompts |-> asked]
    ELSE [kind |-> "rev", rev |-> rev, prompts |-> <<>>]

\* islocalmerge(cur, node, clean): the changes are local and one of the two
\* revisions is the ancestor of the other
islocalmerge(clean, isancestor) == ~clean /\ isancestor

\* Variant of UpdateFlags in which the answer Merge passes --clean too
UpdateFlags_mergediscards(discard, defaultmerge, clean, isancestor, lookupfails, clicked) ==
    IF discard
    THEN [run |-> TRUE, flags |-> <<"--clean">>, clean |-> "notread",
          prompts |-> <<>>]
    ELSE IF lookupfails
    THEN [run |-> FALSE, flags |-> <<>>, clean |-> "notread",
          prompts |-> <<>>]
    ELSE IF clean
    THEN [run |-> TRUE, flags |-> <<"--check">>, clean |-> "clean",
          prompts |-> <<>>]
    ELSE IF ~defaultmerge
    THEN [run |-> clicked \in {"discard", "merge"},
          flags |-> IF clicked \in {"discard", "merge"} THEN <<"--clean">>
                    ELSE <<>>,
          clean |-> "dirty",
          prompts |-> << <<"Confirm Update", clicked>> >>]
    ELSE [run |-> TRUE,
          flags |-> IF ~islocalmerge(clean, isancestor) THEN <<"--merge">>
                    ELSE <<>>,
          clean |-> "dirty", prompts |-> <<>>]

\* The part of runCommand after --rev: the flag that says what happens to
\* local changes, whether a command is run at all, and the prompt shown.
UpdateFlags(discard, defaultmerge, clean, isancestor, lookupfails, clicked) ==
    IF discard
    THEN [run |-> TRUE, flags |-> <<"--clean">>, clean |-> "notread",
          prompts |-> <<>>]
    ELSE IF lookupfails
    THEN [run |-> FALSE, flags |-> <<>>, clean |-> "notread",
          prompts |-> <<>>]
    ELSE IF clean
    THEN [run |-> TRUE, flags |-> <<"--check">>, clean |-> "clean",
          prompts |-> <<>>]
    ELSE IF ~defaultmerge
    THEN [run |-> clicked \in {"discard", "merge"},
          flags |-> IF clicked = "discard" THEN <<"--clean">>
                    ELSE IF clicked = "merge" THEN <<"--merge">>
                    ELSE <<>>,
          clean |-> "dirty",
          prompts |-> << <<"Confirm Update", clicked>> >>]
    ELSE [run |-> TRUE,
          flags |-> IF ~islocalmerge(clean, isancestor) THEN <<"--merge">>
                    ELSE <<>>,
          clean |-> "dirty", prompts |-> <<>>]

\* The URL kept as item data of a pull path of the combo
syncpaths(alias) == "ssh://host/" \o alias

\* The command line up to the flags of UpdateFlags
updatecmdline(rev) ==
    <<"update">>
    \o (IF verbose_chk THEN <<"--verbose">> ELSE <<>>)
    \o <<"--config",
         IF autoresolve_chk THEN "ui.merge=internal:merge"
         ELSE "ui.merge=internal:fail">>
    \o <<"--rev", rev>>
    \o (IF path_combo \notin {"", "default"}
        THEN <<"--config", "paths.default=" \o syncpaths(path_combo)>>
        ELSE <<>>)

bookmarkcmdline(active) ==
    <<"bookmark">>
    \o (IF verbose_chk THEN <<"--verbose">> ELSE <<>>)
    \o <<"-i", active>>

\* What runCommand() gives for the answers activate, choice, deactivate
\* (bookmark prompts) and clicked (confirmupdate), on a working directory
\* that is clean or not, whose parent is or is not on one line with the
\* target (isancestor), and a target that may have vanished (lookupfails)
\* when it is looked up again
RunCommand(activate, choice, deactivate, lookupfails, clean, isancestor, clicked) ==
    LET b == BookmarkStage(activatebookmarks, bookmarks, rev_combo,
                           activebookmark, activate, choice, deactivate)
        u == UpdateFlags(discard_chk, merge_chk, clean, isancestor,
                         lookupfails, clicked)
    IN  IF b.kind = "bookmark"
        THEN [session |-> "bookmark", cmdline |-> bookmarkcmdline(b.rev),
              prompts |-> b.prompts, discard |-> discard_chk,
              defaultmerge |-> merge_chk, clean |-> "notread"]
        ELSE IF b.kind = "null"
        THEN [session |-> "null", cmdline |-> <<>>,
              prompts |-> b.prompts, discard |-> discard_chk,
              defaultmerge |-> merge_chk, clean |-> "notread"]
        ELSE [session |-> IF u.run THEN "update" ELSE "null",
              cmdline |-> IF u.run THEN updatecmdline(b.rev) \o u.flags
                          ELSE <<>>,
              prompts |-> b.prompts \o u.prompts, discard |-> discard_chk,
              defaultmerge |-> merge_chk, clean |-> u.clean]

Asked(run, prompt) == \E i \in DOMAIN run.prompts : run.prompts[i][1] = prompt

\* No call of runCommand() yet, or another handler ran since
NoRun ==
    [session |-> "none", cmdline |-> <<>>, prompts |-> <<>>,
     discard |-> FALSE, defaultmerge |-> FALSE, clean |-> "notread"]

\* runCommand().  An answer to a prompt that is not shown and a part of the
\* repository that is not read are left at their defaults; Shelve is
\* offered unless the working directory has two parents (merged).
uw_runCommand(activate, choice, deactivate, lookupfails, clean, merged, isancestor, clicked) ==
    LET run == RunCommand(activate, choice, deactivate, lookupfails, clean,
                          isancestor, clicked)
        b == BookmarkStage(activatebookmarks, bookmarks, rev_combo,
                           activebookmark, activate, choice, deactivate)
    IN  /\ choice \in Range(bookmarks) \cup {""}
        /\ clicked = "shelve" => ~merged
        /\ ~Asked(run, "Activate bookmark?") => ~activate
        /\ ~Asked(run, "ChoicePrompt") => choice = ""
        /\ ~Asked(run, "Deactivate current bookmark?") => ~deactivate
        /\ ~Asked(run, "Confirm Update") => clicked = "cancel" /\ ~merged
        /\ lookupfails => b.kind = "rev" /\ ~discard_chk
        /\ run.clean = "notread" => clean
        /\ (run.clean # "dirty" \/ ~merge_chk) => isancestor
        /\ uw_run' = run
        /\ UNCHANGED <<verbose_chk, discard_chk, merge_chk, autoresolve_chk,
                       path_combo, rev_combo, activatebookmarks, bookmarks,
                       activebookmark>>
        /\ UNCHANGED <<scvars, beside_uw>>

\* The user checks or unchecks one of the option boxes
CheckNames == {"verbose", "discard", "merge", "autoresolve"}
uw_toggled(chk) ==
    /\ verbose_chk' = IF chk = "verbose" THEN ~verbose_chk ELSE verbose_chk
    /\ discard_chk' = IF chk = "discard" THEN ~discard_chk ELSE discard_chk
    /\ merge_chk' = IF chk = "merge" THEN ~merge_chk ELSE merge_chk
    /\ autoresolve_chk' =
         IF chk = "autoresolve" THEN ~autoresolve_chk ELSE autoresolve_chk
    /\ uw_run' = NoRun
    /\ UNCHANGED <<path_combo, rev_combo, activatebookmarks, bookmarks,
                   activebookmark>>
    /\ UNCHANGED <<scvars, beside_uw>>

\* The user picks a pull path
currentIndexChanged(pathname) ==
    /\ path_combo # pathname
    /\ path_combo' = pathname
    /\ uw_run' = NoRun
    /\ UNCHANGED <<verbose_chk, discard_chk, merge_chk, autoresolve_chk,
                   rev_combo, activatebookmarks, bookmarks, activebookmark>>
    /\ UNCHANGED <<scvars, beside_uw>>

\* The user types the target revision: a number or a bookmark of the target
editTextChanged(rev) ==
    /\ rev_combo # rev
    /\ rev \in Range(bookmarks) \cup {"1"}
    /\ rev_combo' = rev
    /\ uw_run' = NoRun
    /\ UNCHANGED <<verbose_chk, discard_chk, merge_chk, autoresolve_chk,
                   path_combo, activatebookmarks, bookmarks, activebookmark>>
    /\ UNCHANGED <<scvars, beside_uw>>

\* UpdateWidget.__init__ and readSettings() on any repository: the target
\* is given by number, autoresolve is on, the other boxes are unchecked.
InitUpdateWidget ==
    /\ verbose_chk = FALSE
    /\ discard_chk = FALSE
    /\ merge_chk = FALSE
    /\ autoresolve_chk = TRUE
    /\ path_combo = "default"
    /\ rev_combo = "1"
    /\ activatebookmarks \in BookmarkModes
    /\ bookmarks \in BookmarkLists
    /\ activebookmark \in {"", "bm1"}
    /\ uw_run = NoRun

IdleUpdateWidget ==
    /\ InitUpdateWidget
    /\ activatebookmarks = "never"
    /\ bookmarks = <<>>
    /\ activebookmark = ""

NextUpdateWidget ==
    \/ \E activate, deactivate, lookupfails, clean, merged, isancestor \in BOOLEAN :
         \E choice \in {"", "bm1", "bm2"}, clicked \in Clicked :
           uw_runCommand(activate, choice, deactivate, lookupfails, clean,
                         merged, isancestor, clicked)
    \/ \E chk \in CheckNames : uw_toggled(chk)
    \/ \E pathname \in PathNames : currentIndexChanged(pathname)
    \/ \E rev \in RevTexts : editTextChanged(rev)

(***************************************************************************)
(* ResolveDialog                                                           *)
(***************************************************************************)

\* The files of thgrepo.recursiveMergeStatus(), in its order, as pairs of
\* the root of their repository and their path in it; a path is the
\* sequence of its segments. The repository r has the subrepository r/sub.
MergeFiles ==
    << << <<"r">>, <<"a">> >>,
       << <<"r", "sub">>, <<"a">> >>,
       << <<"r">>, <<"b">> >>,
       << <<"r", "sub">>, <<"c">> >> >>
Statuses == [DOMAIN MergeFiles -> {"u", "r", "-"}]

\* os.path.join and os.path.normpath on segments, hglib.tounicode on a path
join(root, wfile) == root \o wfile
normpath(path) == SelectSeq(path, LAMBDA seg : seg \notin {"", "."})
RECURSIVE tounicode(_)
tounicode(path) ==
    IF path = <<>> THEN "" ELSE "/" \o Head(path) \o tounicode(Tail(path))

\* PathsModel(pathlist).rows and getPathForIndex(row)
PathsModel(pathlist) == [i \in DOMAIN pathlist |-> <<pathlist[i][2], pathlist[i][1]>>]
getPathForIndex(rows, row) == <<rows[row][2], rows[row][1]>>

\* getSelectedPaths(tree): the pair of each selected row, in the order of
\* selectedRows()
getSelectedPaths(rows, sel) == [i \in DOMAIN sel |-> getPathForIndex(rows, sel[i])]

\* The files of the statuses wanted, in the order of recursiveMergeStatus
RECURSIVE WithStatus(_, _, _)
WithStatus(status, wanted, i) ==
    IF i > Len(MergeFiles) THEN <<>>
    ELSE (IF status[i] \in wanted THEN <<MergeFiles[i]>> ELSE <<>>)
         \o WithStatus(status, wanted, i + 1)

\* refresh() selects again, in row order, the rows whose path was selected
RECURSIVE Reselect(_, _, _)
Reselect(pathlist, paths, i) ==
    IF i > Len(pathlist) THEN <<>>
    ELSE (IF pathlist[i] \in Range(paths) THEN <<i>> ELSE <<>>)
         \o Reselect(pathlist, paths, i + 1)

\* Variant of FilesOf that appends every selected file
FilesOf_any(selected, curroot) ==
    [i \in DOMAIN selected |->
        tounicode(normpath(join(selected[i][1], selected[i][2])))]

\* The for loop of runCommand: the selected files of the root curroot
FilesOf(selected, curroot) ==
    LET mine == SelectSeq(selected, LAMBDA p : p[1] = curroot)
    IN  [i \in DOMAIN mine |->
            tounicode(normpath(join(mine[i][1], mine[i][2])))]

\* The while loop of runCommand after n rounds, given up after limit rounds
RECURSIVE GroupLoop(_, _, _, _, _)
GroupLoop(cmdline, selected, cmdlines, n, limit) ==
    IF selected = <<>>
    THEN [cmdlines |-> cmdlines, rounds |-> n, terminated |-> TRUE]
    ELSE IF n >= limit
    THEN [cmdlines |-> cmdlines, rounds |-> n, terminated |-> FALSE]
    ELSE LET curroot == selected[1][1]
             cmd == cmdline \o <<"--repository", tounicode(curroot), "--">>
                    \o FilesOf(selected, curroot)
         IN  GroupLoop(cmdline,
                       SelectSeq(selected, LAMBDA p : p[1] # curroot),
                       Append(cmdlines, cmd), n + 1, limit)

\* The actions of the menus are enabled when rows are selected and no
\* command runs
umenuitems == utree_sel # <<>> /\ rd_cmdsession # "running"
rmenuitems == rtree_sel # <<>> /\ rd_cmdsession # "running"

NoCall ==
    [call |-> "none", cmdline |-> <<>>, selected |-> <<>>, cmdlines |-> <<>>,
     rounds |-> 0, terminated |-> TRUE, started |-> FALSE]

\* runCommand(tree, cmdline) on the rows and the selection of the tree
rd_runCommand(rows, sel, cmdline) ==
    LET selected == getSelectedPaths(rows, sel)
        loop == GroupLoop(cmdline, selected, <<>>, 0, Len(selected) + 1)
    IN  /\ rd_run' = [call |-> "runCommand", cmdline |-> cmdline,
                      selected |-> selected, cmdlines |-> loop.cmdlines,
                      rounds |-> loop.rounds,
                      terminated |-> loop.terminated,
                      started |-> loop.cmdlines # <<>>]
        /\ rd_cmdsession' =
             IF loop.cmdlines # <<>> THEN "running" ELSE rd_cmdsession
        /\ UNCHANGED <<utree, rtree, utree_sel, rtree_sel>>
        /\ UNCHANGED <<scvars, beside_rd>>

\* merge(tool): from a merge action of the menu with its tool, or from a
\* double click, with the tool of the combo box when none is given
Tools == {"", "internal:merge", "kdiff3"}
merge(tool, combo) ==
    LET t == IF tool = "" THEN combo ELSE tool
    IN  /\ utree # <<>>
        /\ rd_runCommand(utree, utree_sel,
              <<"resolve">> \o (IF t # "" THEN <<"--tool=" \o t>> ELSE <<>>))

markresolved ==
    /\ umenuitems
    /\ rd_runCommand(utree, utree_sel, <<"resolve", "--mark">>)

markunresolved ==
    /\ rmenuitems
    /\ rd_runCommand(rtree, rtree_sel, <<"resolve", "--unmark">>)

\* refresh() on the merge status read from the repository
Refreshed(status) ==
    LET u == WithStatus(status, {"u"}, 1)
        r == WithStatus(status, {"r"}, 1)
    IN  /\ utree' = PathsModel(u)
        /\ utree_sel' = Reselect(u, getSelectedPaths(utree, utree_sel), 1)
        /\ rtree' = PathsModel(r)
        /\ rtree_sel' = Reselect(r, getSelectedPaths(rtree, rtree_sel), 1)

\* The repository changed or the refresh button was clicked
refresh(status) ==
    /\ Refreshed(status)
    /\ rd_run' = [NoCall EXCEPT !.call = "refresh"]
    /\ UNCHANGED rd_cmdsession
    /\ UNCHANGED <<scvars, beside_rd>>

\* The command sequence finished: commandFinished is connected to refresh
rd_commandFinished(status) ==
    /\ rd_cmdsession = "running"
    /\ rd_cmdsession' = "finished"
    /\ Refreshed(status)
    /\ rd_run' = [NoCall EXCEPT !.call = "commandFinished"]
    /\ UNCHANGED <<scvars, beside_rd>>

\* The user adds a row to the selection of a tree or takes it out of it
TreeNames == {"utree", "rtree"}
Toggle(sel, row) ==
    IF row \in Range(sel) THEN SelectSeq(sel, LAMBDA x : x # row)
    ELSE Append(sel, row)
select(tree, row) ==
    /\ row \in DOMAIN (IF tree = "utree" THEN utree ELSE rtree)
    /\ utree_sel' = IF tree = "utree" THEN Toggle(utree_sel, row) ELSE utree_sel
    /\ rtree_sel' = IF tree = "rtree" THEN Toggle(rtree_sel, row) ELSE rtree_sel
    /\ rd_run' = [NoCall EXCEPT !.call = "select"]
    /\ UNCHANGED <<utree, rtree, rd_cmdsession>>
    /\ UNCHANGED <<scvars, beside_rd>>

\* ResolveDialog.__init__: refresh() on the merge status of the repository,
\* then utree.selectAll()
InitResolveDialog ==
    /\ \E status \in Statuses :
         /\ utree = PathsModel(WithStatus(status, {"u"}, 1))
         /\ rtree = PathsModel(WithStatus(status, {"r"}, 1))
    /\ utree_sel = [i \in DOMAIN utree |-> i]
    /\ rtree_sel = <<>>
    /\ rd_cmdsession = "null"
    /\ rd_run = NoCall

IdleResolveDialog ==
    /\ utree = <<>>
    /\ rtree = <<>>
    /\ utree_sel = <<>>
    /\ rtree_sel = <<>>
    /\ rd_cmdsession = "null"
    /\ rd_run = NoCall

NextResolveDialog ==
    \/ \E tool, combo \in Tools : merge(tool, combo)
    \/ markresolved
    \/ markunresolved
    \/ \E status \in Statuses : refresh(status)
    \/ \E status \in Statuses : rd_commandFinished(status)
    \/ \E tree \in TreeNames, row \in DOMAIN MergeFiles : select(tree, row)

\* The dialogs at rest beside the registry, the widget and the manifest model
InitExt ==
    /\ InitShortcutDialog
    /\ IdleGraftDialog
    /\ IdlePostReviewDialog
    /\ IdleUpdateWidget
    /\ IdleResolveDialog

(***************************************************************************)
(* Specifications                                                          *)
(***************************************************************************)

\* Specification of the selection attributes: every repository (phases,
\* patch queue) and every selection, no revision set and no extension.
InitSelection ==
    /\ phase \in PhaseMaps
    /\ napplied \in 0..NPatches
    /\ guarded \in Guards(napplied)
    /\ extensions = {}
    /\ InitWidget
    /\ InitShortcuts
    /\ InitManifestModel
    /\ InitExt

NextSelection ==
    \/ \E item \in Items(napplied), toggle \in BOOLEAN :
           _onSelectedRevisionsChanged(item, toggle)
    \/ \E ph \in PhaseMaps, n \in 0..NPatches :
           \E g \in Guards(n) : repositoryChanged(ph, n, g)

SpecSelection == InitSelection /\ [][NextSelection]_vars

\* Specification of the named actions: every handler of the widget, on a
\* repository with a public and a draft changeset whose patch queue is
\* pushed and popped by one patch.
WidgetPhase == [r \in Revs |-> IF r = 0 THEN public ELSE draft]

InitRepoWidget ==
    /\ phase = WidgetPhase
    /\ napplied = 0
    /\ guarded = {}
    /\ extensions \in SUBSET ExtPool
    /\ InitWidget
    /\ InitShortcuts
    /\ InitManifestModel
    /\ InitExt

NextRepoWidget ==
    \/ \E item \in Items(napplied), toggle \in BOOLEAN :
           _onSelectedRevisionsChanged(item, toggle)
    \/ \E n \in 0..1 : repositoryChanged(WidgetPhase, n, {})
    \/ \E exts \in SUBSET ExtPool : configChanged(exts)
    \/ \E revspec \in RevSpecs : setRevisionSet(revspec)
    \/ clearBundle
    \/ setBundle
    \/ \E revspec \in {"", "1::"} : setOutgoingNodes(revspec)
    \/ push

SpecRepoWidget == InitRepoWidget /\ [][NextRepoWidget]_vars

NextShortcuts ==
    \/ \E name \in allNames, seqs \in UserSeqs : setUserKeySequences(name, seqs)
    \/ \E name \in allNames : unsetUserKeySequences(name)

\* The widget is idle under the registry's specification.
IdleRepoWidget ==
    /\ phase = WidgetPhase
    /\ napplied = 0
    /\ guarded = {}
    /\ extensions = {}
    /\ InitWidget

InitRegistry ==
    InitShortcuts /\ IdleRepoWidget /\ InitManifestModel /\ InitExt

SpecShortcuts == InitRegistry /\ [][NextShortcuts]_vars

\* The registry and the widget are idle under the manifest's specification.
InitManifest ==
    InitManifestModel /\ InitShortcuts /\ IdleRepoWidget /\ InitExt

SpecManifest == InitManifest /\ [][NextManifest]_vars

\* The shortcut dialog over a registry without user keys: actions are
\* registered, the dialog is opened, edited and closed, again and again.
BaseIdle == InitShortcuts /\ IdleRepoWidget /\ InitManifestModel

InitDialog ==
    /\ InitShortcutDialog
    /\ BaseIdle
    /\ IdleGraftDialog
    /\ IdlePostReviewDialog
    /\ IdleUpdateWidget
    /\ IdleResolveDialog

SpecShortcutDialog == InitDialog /\ [][NextShortcutDialog]_vars

\* The graft dialog on any repository: clicks, links, the cleaner's check
\* and command completions in any order.
InitGraft ==
    /\ InitGraftDialog
    /\ BaseIdle
    /\ InitShortcutDialog
    /\ IdlePostReviewDialog
    /\ IdleUpdateWidget
    /\ IdleResolveDialog

SpecGraftDialog == InitGraft /\ [][NextGraftDialog]_vars

\* The post review dialog: the loader thread, the form, posts, their
\* completions and the close requests in any order.
InitPostReview ==
    /\ InitPostReviewDialog
    /\ BaseIdle
    /\ InitShortcutDialog
    /\ IdleGraftDialog
    /\ IdleUpdateWidget
    /\ IdleResolveDialog

SpecPostReviewDialog == InitPostReview /\ [][NextPostReviewDialog]_vars

\* The update widget on any repository: the options, the target and the
\* pull path are edited and the command is run with any answers.
InitUpdate ==
    /\ InitUpdateWidget
    /\ BaseIdle
    /\ InitShortcutDialog
    /\ IdleGraftDialog
    /\ IdlePostReviewDialog
    /\ IdleResolveDialog

SpecUpdateWidget == InitUpdate /\ [][NextUpdateWidget]_vars

\* The resolve dialog on any merge: rows are selected in any order, the
\* commands are run, finish, and the lists are refreshed.
InitResolve ==
    /\ InitResolveDialog
    /\ BaseIdle
    /\ InitShortcutDialog
    /\ IdleGraftDialog
    /\ IdlePostReviewDialog
    /\ IdleUpdateWidget

SpecResolveDialog == InitResolve /\ [][NextResolveDialog]_vars

(***************************************************************************)
(* Properties                                                              *)
(***************************************************************************)

RevisionSelected == \E x \in selectedRevisions : x.kind \in {"None", "int"}
UnappliedPatchSelected == \E x \in selectedRevisions : x.kind = "bytes"

\* C2: a handler that ends with _updateNamedActions leaves every named
\* action enabled exactly when its required attributes are a subset of the
\* selection attributes, and visible exactly when it requires no extension
\* or one of its required extensions is enabled.
C2_NamedActionsFollowSelection ==
    rw_call = "_updateNamedActions" =>
        \A n \in DOMAIN _actions :
            /\ n \in actEnabled <=>
                   \A a \in _actions[n].attrs : a \in _selectionAttributes
            /\ n \in actVisible <=>
                   \/ _actions[n].exts = {}
                   \/ \E e \in _actions[n].exts : e \in extensions

\* An update that enabled an outgoing-only action and left another action
\* disabled, with an action shown for one of its two extensions and an
\* action that needs no extension.
C2_Witness ==
    /\ rw_call = "_updateNamedActions"
    /\ "Repository.pushToRevision" \in actEnabled
    /\ "Repository.exportDiff" \notin actEnabled
    /\ "Repository.stripRevision" \in actVisible
    /\ "Repository.visualDiff" \in actVisible

\* C3: 'isctx' is present exactly when a revision and no unapplied patch is
\* selected, 'isrev' exactly when 'isctx' holds and the working directory is
\* not selected, 'iswd' exactly when the working directory alone is
\* selected; 'isrev' and 'iswd' exclude each other and each implies 'isctx'.
C3_CtxRevWd ==
    LET attrs == _selectionAttributes
        isctx == _SELECTION_ISCTX \in attrs
        isrev == _SELECTION_ISREV \in attrs
        iswd == _SELECTION_ISWD \in attrs
    IN  /\ isctx <=> (RevisionSelected /\ ~UnappliedPatchSelected)
        /\ isrev <=> (isctx /\ WdItem \notin selectedRevisions)
        /\ iswd <=> (selectedRevisions = {WdItem})
        /\ ~(isrev /\ iswd)
        /\ isrev => isctx
        /\ iswd => isctx

\* The working directory selected together with a changeset.
C3_Witness ==
    /\ selectedRevisions = {WdItem, RevItem(1)}
    /\ _SELECTION_ISCTX \in _selectionAttributes
    /\ _SELECTION_ISWD \notin _selectionAttributes

\* C4 (as claimed): for a selection that is not empty, 'isdraftorwd' is
\* present exactly when no unapplied patch is selected and every selected
\* item is the working directory or a changeset whose phase is draft.
C4_DraftOrWdOnly ==
    selectedRevisions # {} =>
        (_SELECTION_ISDRAFTORWD \in _selectionAttributes <=>
            /\ ~UnappliedPatchSelected
            /\ \A x \in selectedRevisions :
                   x = WdItem \/ (x.kind = "int" /\ phase[x.id] = draft))

\* C5: 'istrue' is always present, 'single' exactly when one item is
\* selected, 'pair' exactly when two are, 'some' exactly when any is.
C5_SinglePairSome ==
    LET attrs == _selectionAttributes
        n == Cardinality(selectedRevisions)
    IN  /\ _SELECTION_ISTRUE \in attrs
        /\ _SELECTION_SINGLE \in attrs <=> n = 1
        /\ _SELECTION_PAIR \in attrs <=> n = 2
        /\ _SELECTION_SOME \in attrs <=> n >= 1
        /\ ~(_SELECTION_SINGLE \in attrs /\ _SELECTION_PAIR \in attrs)
        /\ _SELECTION_SINGLE \in attrs => _SELECTION_SOME \in attrs
        /\ _SELECTION_PAIR \in attrs => _SELECTION_SOME \in attrs

\* A changeset and an unapplied patch selected together: a pair.
C5_Witness ==
    /\ Cardinality(selectedRevisions) = 2
    /\ RevisionSelected
    /\ UnappliedPatchSelected
    /\ _SELECTION_PAIR \in _selectionAttributes

\* C10: setUserKeySequences(name, seqs) makes keySequences(name) the stored
\* list, the empty list included; unsetUserKeySequences(name) makes
\* keySequences(name) the default again and hasUserKeySequences(name)
\* false; the entries of the other names are as before the call.
C10_UserKeysOverrideDefault ==
    [][\A n \in allNames :
          /\ (sc_call'.op = "set" /\ sc_call'.name = n) =>
                 /\ keySequences(n)' = sc_call'.seqs
                 /\ hasUserKeySequences(n)'
          /\ (sc_call'.op = "unset" /\ sc_call'.name = n) =>
                 /\ keySequences(n)' = defaultKeySequences(n)
                 /\ ~hasUserKeySequences(n)'
          /\ sc_call'.name # n =>
                 /\ keySequences(n)' = keySequences(n)
                 /\ hasUserKeySequences(n)' = hasUserKeySequences(n)
      ]_vars

\* The default of one action restored while another action, whose default
\* is 'Del', is stored with no shortcut at all.
C10_Witness ==
    /\ sc_call.op = "unset"
    /\ ~hasUserKeySequences(sc_call.name)
    /\ hasUserKeySequences("PatchQueue.deletePatches")
    /\ keySequences("PatchQueue.deletePatches") = <<>>
    /\ defaultKeySequences("PatchQueue.deletePatches") = <<"Del">>

\* The entries of the tree below the root, by kind
Entries == DOMAIN _rootentry.tree \ {<<>>}
FileEntries ==
    {k \in Entries : /\ _rootentry.tree[k].subkind = "None"
                     /\ _rootentry.tree[k].status # "None"}
SubrepoEntries == {k \in Entries : _rootentry.tree[k].subkind # "None"}
RevLoadedCount(sigs) == Cardinality({i \in DOMAIN sigs : sigs[i] = "revLoaded"})

\* C1: canFetchMore(parent) is true exactly for the invalid parent of a
\* model whose root is not populated; a fetchMore of the root that returns
\* populates it; once populated, canFetchMore(root) stays false; fetchMore
\* with a valid parent or on a populated model changes nothing and emits
\* nothing.
C1_FetchMorePopulatesOnce ==
    [][/\ \A parent \in ParentIndexes \cup {<< <<"a">> >>} :
              canFetchMore(parent) <=> (parent = <<>> /\ ~_rootpopulated)
       /\ \A parent \in ParentIndexes, fails, subfails \in BOOLEAN :
              fetchMore(parent, fails, subfails) =>
                  IF parent = <<>> /\ ~_rootpopulated
                  THEN mm_call' # "raised" =>
                           /\ _rootpopulated'
                           /\ ~canFetchMore(<<>>)'
                           /\ _rootentry'.ctx = _rootentry.ctx
                           /\ _rootentry'.pctx = _rootentry.pctx
                  ELSE /\ UNCHANGED <<_rootentry, _populate, _rootpopulated,
                                      _namefilter, _statusfilter,
                                      _changedfilesonly, _nodeop>>
                       /\ signals' = <<>>
       /\ ~canFetchMore(<<>>) => ~canFetchMore(<<>>)'
      ]_vars

\* The first fetchMore has populated the root with rows.
C1_Witness ==
    /\ _rootpopulated
    /\ ~canFetchMore(<<>>)
    /\ signals = <<"rowsAboutToBeInserted", "rowsInserted", "revLoaded">>

\* C6: revLoaded is emitted at most once per call and only by a call that
\* loaded the root: by the fetchMore that populates and by a setRev or
\* setRawContext that repopulated a populated model; never while the model
\* stays unpopulated, never by a call that returned early, never by a call
\* whose population raised, never by the filter and layout setters.  A
\* step that emits it is not a setter's and leaves filters and layout
\* alone; a step that populated without emitting it is not a step of
\* fetchMore, setRev or setRawContext and changed a filter or the layout.
C6_RevLoadedOnlyOnLoad ==
    [][LET n == RevLoadedCount(signals')
           loads ==
               \/ \E fails, subfails \in BOOLEAN :
                      fetchMore(<<>>, fails, subfails)
               \/ \E rev \in RevArgs, prev \in PrevArgs :
                      /\ _newRevNode(rev, prev).ctx = _rootentry'.ctx
                      /\ _newRevNode(rev, prev).pctx = _rootentry'.pctx
                      /\ \E fails, subfails \in BOOLEAN :
                             setRev(rev, prev, fails, subfails)
               \/ \E ctx \in RawContexts :
                      /\ ctx = _rootentry'.ctx
                      /\ \E fails, subfails \in BOOLEAN :
                             setRawContext(ctx, fails, subfails)
           sets ==
               \/ \E pattern \in NameFilters, fails, subfails \in BOOLEAN :
                      setNameFilter(pattern, fails, subfails)
               \/ \E status \in StatusFilters, fails, subfails \in BOOLEAN :
                      setStatusFilter(status, fails, subfails)
               \/ \E changedonly, fails, subfails \in BOOLEAN :
                      setChangedFilesOnly(changedonly, fails, subfails)
               \/ \E flat, fails, subfails \in BOOLEAN :
                      setFlat(flat, fails, subfails)
           layout == <<_namefilter, _statusfilter, _changedfilesonly, _nodeop>>
       IN  /\ n <= 1
           /\ n = 1 => /\ _rootpopulated'
                       /\ mm_call' = "populated"
                       /\ signals'[Len(signals')] = "revLoaded"
                       /\ ~sets
                       /\ UNCHANGED layout
           /\ mm_call' = "populated" /\ n = 0 => ~loads /\ ~UNCHANGED layout
           /\ mm_call' \in {"early", "deferred", "raised"} => n = 0
           /\ ~_rootpopulated' => n = 0
      ]_vars

\* A setRawContext that put a patch into a populated model has emitted
\* revLoaded after the layout change.
C6_Witness ==
    /\ _rootentry.ctx = patchctx
    /\ signals = <<"layoutAboutToBeChanged", "layoutChanged", "revLoaded">>

\* C7: after a call that populated the tree, the status of every file
\* entry is a letter of the current status filter; under a patch context
\* it is one of M, A and R; subrepository entries exist only if 'S' is in
\* the filter.
C7_EntriesWithinStatusFilter ==
    mm_call = "populated" =>
        /\ \A k \in FileEntries :
               /\ _rootentry.tree[k].status \in FilterLetters(_statusfilter)
               /\ _rootentry.ctx = patchctx =>
                      _rootentry.tree[k].status \in {"M", "A", "R"}
        /\ SubrepoEntries # {} => "S" \in FilterLetters(_statusfilter)

\* A population under a filter without 'S' and 'C' that lists a removed
\* file.
C7_Witness ==
    /\ mm_call = "populated"
    /\ _statusfilter = "MAR"
    /\ \E k \in FileEntries : _rootentry.tree[k].status = "R"

\* The entry of the subrepository at path, if the tree has one
HasSubrepoEntry(path) == EntryKey(_nodeop, path) \in SubrepoEntries
HasChildren(path) ==
    _rootentry.tree[EntryKey(_nodeop, path)].nameindex # <<>>

C9_NoCleanWhenChangedOnly ==
    mm_call = "populated" /\ _changedfilesonly =>
        \A k \in FileEntries : _rootentry.tree[k].status # "C"

\* The entry of a parent index (the root entry for the invalid index), its
\* rows, and the entry index(row, 0, parent) points to; rows count from 0.
_parententry(parent) == parent
rowCount(parent) == Len(_rootentry.tree[_parententry(parent)].nameindex)
at(e, row) == Append(e, _rootentry.tree[e].nameindex[row + 1])
index(row, parent) ==
    IF row < 0 \/ rowCount(parent) <= row THEN <<"invalid">>
    ELSE at(_parententry(parent), row)
isdir(e) ==
    _rootentry.tree[e].subkind # "None" \/ _rootentry.tree[e].nameindex # <<>>
name(e) == e[Len(e)]

\* C12: in every entry of the tree the rows list each child once, every
\* directory entry (an entry with children, or a subrepo) comes before
\* every file entry, and within the directories and within the files the
\* rows ascend by case-normalized name; index(row, 0, parent) gives the
\* rows in this order at every level.
C12_DirectoriesFirstThenByName ==
    \A parent \in DOMAIN _rootentry.tree :
        /\ \A row \in 0..(rowCount(parent) - 1) :
               index(row, parent) \in DOMAIN _rootentry.tree
        /\ {k \in DOMAIN _rootentry.tree :
                 Len(k) = Len(parent) + 1 /\ IsPrefix(parent, k)}
             = {index(row, parent) : row \in 0..(rowCount(parent) - 1)}
        /\ \A r1, r2 \in 0..(rowCount(parent) - 1) :
               r1 < r2 =>
                 LET e1 == index(r1, parent)
                     e2 == index(r2, parent)
                 IN  /\ e1 # e2
                     /\ isdir(e2) => isdir(e1)
                     /\ isdir(e1) = isdir(e2) =>
                          NameLess(normcase(name(e1)), normcase(name(e2)))

\* A populated tree whose top level lists a directory, a subrepo and a
\* file with the file's name the smallest, and whose directory has rows
\* of its own.
C12_Witness ==
    /\ _rootpopulated
    /\ mm_call = "populated"
    /\ \E r1, r2, r3 \in 0..(rowCount(<<>>) - 1) :
           /\ r1 < r2 /\ r2 < r3
           /\ _rootentry.tree[index(r1, <<>>)].subkind = "None"
           /\ rowCount(index(r1, <<>>)) >= 2
           /\ _rootentry.tree[index(r2, <<>>)].subkind # "None"
           /\ ~isdir(index(r3, <<>>))
           /\ NameLess(name(index(r3, <<>>)), name(index(r1, <<>>)))

\* C13: no command is started while the previous one is still running:
\* the assertion self._cmdsession.isFinished() of _runCommand never fails,
\* whatever the order of Graft/Continue clicks, Abort clicks and command
\* completions.
C13_NoCommandWhileRunning == gd_call # "AssertionError"

\* C14: the dialog is accepted (settings written, dialog closed) only
\* after its post command has finished; after a basic auth failure and a
\* new password the dialog stays open until the retried command is done.
C14_AcceptedOnlyAfterFinished ==
    pr_result = "accepted" => pr_cmdsession.finished

HasFlag(run, flag) == \E i \in DOMAIN run.cmdline : run.cmdline[i] = flag
Answer(run, prompt) ==
    run.prompts[CHOOSE i \in DOMAIN run.prompts : run.prompts[i][1] = prompt][2]

\* C15: the command line of runCommand holds --clean only if the discard
\* box was checked or the confirmation prompt was answered with Discard;
\* the prompt is shown exactly when the box is unchecked, the working
\* directory is found dirty and merge-by-default is off, and when it is
\* answered with Cancel or Shelve no command is run: the session returned
\* is the null session.
C15_CleanOnlyOnDiscard ==
    /\ HasFlag(uw_run, "--clean") =>
         \/ uw_run.discard
         \/ /\ Asked(uw_run, "Confirm Update")
            /\ Answer(uw_run, "Confirm Update") = "discard"
    /\ Asked(uw_run, "Confirm Update") <=>
         (~uw_run.discard /\ uw_run.clean = "dirty" /\ ~uw_run.defaultmerge)
    /\ (/\ Asked(uw_run, "Confirm Update")
        /\ Answer(uw_run, "Confirm Update") \in {"cancel", "shelve"}) =>
         /\ uw_run.session = "null"
         /\ uw_run.cmdline = <<>>

\* A run with the discard box unchecked on a dirty working directory that
\* asked, was answered with Discard and passed --clean to an update.
C15_Witness ==
    /\ uw_run.session = "update"
    /\ ~uw_run.discard
    /\ Asked(uw_run, "Confirm Update")
    /\ Answer(uw_run, "Confirm Update") = "discard"
    /\ HasFlag(uw_run, "--clean")

\* The roots of the selected files, the selected files of a root as they
\* are written on a command line, and the files a command line names
RootsOf(selected) == {selected[i][1] : i \in DOMAIN selected}
WrittenFiles(selected, root) ==
    {tounicode(normpath(join(selected[i][1], selected[i][2]))) :
        i \in {j \in DOMAIN selected : selected[j][1] = root}}
FilesNamed(cmd, cmdline) == SubSeq(cmd, Len(cmdline) + 4, Len(cmd))

\* C16: runCommand builds one command line per distinct root of the
\* selected files; it is the command given, then --repository, the root,
\* --, then exactly the selected files of that root, each once, so that
\* every selected file is on exactly one command line; the loop ends after
\* as many rounds as there are roots; the command lines are started, and
\* nothing is started when nothing is selected.
C16_OneCommandPerRoot ==
    rd_run.call = "runCommand" =>
        LET selected == rd_run.selected
            cmdlines == rd_run.cmdlines
            cmdline == rd_run.cmdline
        IN  /\ rd_run.terminated
            /\ rd_run.rounds = Cardinality(RootsOf(selected))
            /\ Len(cmdlines) = Cardinality(RootsOf(selected))
            /\ \A root \in RootsOf(selected) :
                 \E i \in DOMAIN cmdlines :
                    /\ SubSeq(cmdlines[i], 1, Len(cmdline) + 3)
                         = cmdline \o <<"--repository", tounicode(root), "--">>
                    /\ Range(FilesNamed(cmdlines[i], cmdline))
                         = WrittenFiles(selected, root)
                    /\ Len(FilesNamed(cmdlines[i], cmdline))
                         = Cardinality(WrittenFiles(selected, root))
                    /\ \A j \in DOMAIN cmdlines :
                         cmdlines[j][Len(cmdline) + 2] = tounicode(root)
                            => j = i
            /\ \A k \in DOMAIN selected :
                 Cardinality({i \in DOMAIN cmdlines :
                     tounicode(normpath(join(selected[k][1], selected[k][2])))
                        \in Range(FilesNamed(cmdlines[i], cmdline))}) = 1
            /\ rd_run.started <=> selected # <<>>
            /\ rd_run.started => rd_cmdsession = "running"

\* Three files of two repositories selected with the roots interleaved,
\* and run as two command lines.
C16_Witness ==
    /\ rd_run.call = "runCommand"
    /\ Len(rd_run.selected) = 3
    /\ rd_run.selected[1][1] # rd_run.selected[2][1]
    /\ rd_run.selected[3][1] = rd_run.selected[1][1]
    /\ Len(rd_run.cmdlines) = 2
    /\ rd_run.started

\* C11: the dialog edits a copy of the registry. Opening it copies the user
\* keys and leaves the original alone; no step taken while it stays open
\* changes the original's user keys, hence its key sequences, the saved
\* settings or the registered actions; accept copies the edited keys back,
\* then saves them, then applies them to the registered actions, in that
\* order; reject leaves the original, the settings and the actions alone.
C11_DialogEditsCopy ==
    [][ /\ (dialog # "open" /\ dialog' = "open") =>
            /\ w_userKeys' = userKeys
            /\ UNCHANGED <<userKeys, qsettings, actionShortcuts>>
        /\ (dialog = "open" /\ dialog' = "open") =>
            /\ UNCHANGED <<userKeys, qsettings, actionShortcuts>>
            /\ \A n \in allNames :
                   keySequencesOf(userKeys', n) = keySequencesOf(userKeys, n)
        /\ (dialog = "open" /\ dialog' = "accepted") =>
            /\ userKeys' = w_userKeys
            /\ \A n \in allNames :
                   IF n \in DOMAIN w_userKeys
                   THEN /\ n \in DOMAIN qsettings'
                        /\ qsettings'[n] = _formatKeySequences(w_userKeys[n])
                   ELSE n \notin DOMAIN qsettings'
            /\ DOMAIN actionShortcuts' = DOMAIN actionShortcuts
            /\ \A n \in DOMAIN actionShortcuts' :
                   actionShortcuts'[n] = keySequencesOf(w_userKeys, n)
            /\ sd_calls' = <<"updateShortcuts", "saveSettings",
                             "applyChangesToActions", "QDialog.accept">>
        /\ (dialog = "open" /\ dialog' = "rejected") =>
            UNCHANGED <<userKeys, qsettings, actionShortcuts>>
      ]_vars

\* An accepted dialog whose edits gave an action a user key, removed the
\* keys of another and were applied to a registered action.
C11_Witness ==
    /\ dialog = "accepted"
    /\ "Workbench.refresh" \in DOMAIN userKeys
    /\ userKeys["Workbench.refresh"] = <<"Ctrl+K">>
    /\ "PatchQueue.deletePatches" \in DOMAIN userKeys
    /\ userKeys["PatchQueue.deletePatches"] = <<>>
    /\ "Workbench.refresh" \in DOMAIN actionShortcuts
    /\ actionShortcuts["Workbench.refresh"] = <<"Ctrl+K">>
    /\ "Workbench.refresh" \in DOMAIN qsettings

====
